---- MODULE Spec2Model ----
(***************************************************************************)
(* SuperMind-Train: the session state machines of the multiplication       *)
(* trainer.                                                                *)
(*                                                                         *)
(* Part I  - the linear session (TestManager + Timer + Storage + the App   *)
(*           event wiring), in its two revisions:                          *)
(*             variant "A" = src/js/modules/TestManager.js (a per-question *)
(*                           timeout auto-advances),                       *)
(*             variant "B" = src/unnamed/part_001 (a per-question timeout  *)
(*                           locks the question, the user advances),       *)
(*           both driven by the event wiring of src/js/app.js.  The App    *)
(*           revision of src/unnamed/part_003 constructs its TestManager   *)
(*           as new TestManager(this) and never calls setApp; both         *)
(*           constructors take no parameter, so its TestManager.app stays  *)
(*           null and startTest throws before a session exists.            *)
(* Part II - the free-navigation exam (src/assets/js/exam.js with the      *)
(*           Timer of src/unnamed/part_005).                               *)
(***************************************************************************)
EXTENDS Integers, Sequences, FiniteSets, TLC

(***************************************************************************)
(* Bounds of the model.                                                    *)
(***************************************************************************)
MaxQuestions == 2
MaxDuration == 2
MaxTests == 1
MaxSaves == 2

(***************************************************************************)
(* Encodings of JavaScript values.                                         *)
(***************************************************************************)
\* null / undefined where a number is expected (answers are >= 0)
NoAnswer == -1
\* null where an answer index is expected
NoIndex == -1

NumAnswers == 4

\* the answer buttons the user presses (0-based): on each question of
\* QuestionPool one of them is the correct answer and the other a wrong one
PressedIndices == {1, 2}

\* Math.round(x / y * 100) for x >= 0, y > 0
RoundPercent(x, y) == (200 * x + y) \div (2 * y)

(***************************************************************************)
(* Questions as QuestionGenerator.generateQuestion returns them: the       *)
(* correct answer and three distractors, pairwise distinct, shuffled.      *)
(* The first one is 0 x 7, whose correct answer is the falsy value 0.      *)
(***************************************************************************)
QuestionPool ==
    << [factorA |-> 0, factorB |-> 7, correctAnswer |-> 0,
        answers |-> <<1, 0, 2, 5>>, selectedAnswer |-> NoAnswer],
       [factorA |-> 3, factorB |-> 4, correctAnswer |-> 12,
        answers |-> <<21, 13, 12, 10>>, selectedAnswer |-> NoAnswer] >>

\* QuestionGenerator.generateTestQuestions(count): the sequences of count
\* questions that the random generator may return, here the ones that
\* alternate between the two questions of QuestionPool, starting with either
generateTestQuestions(count) ==
    { [i \in 1..count |-> QuestionPool[((i + k) % 2) + 1]] : k \in 0..1 }

\* QuestionGenerator.validateAnswer(question, userAnswer)
validateAnswer(question, userAnswer) == question.correctAnswer = userAnswer

TimerModes == {"off", "per-question", "total-time"}

SettingsSet ==
    [questionCount : 1..MaxQuestions,
     timerMode : TimerModes,
     timerDuration : 1..MaxDuration]

NoSettings == [questionCount |-> 1, timerMode |-> "off", timerDuration |-> 1]

\* this.currentTest = null
NoTest == [present |-> FALSE, settings |-> NoSettings, questions |-> <<>>,
           results |-> <<>>]

VARIABLES
    variant,              \* which TestManager revision runs: "A" or "B"
    currentTest,          \* TestManager.currentTest
    currentQuestionIndex, \* TestManager.currentQuestionIndex (0-based)
    userAnswers,          \* TestManager.userAnswers, the answer log
    isNavigating,         \* TestManager.isNavigating
    selectedAnswerIndex,  \* TestManager.selectedAnswerIndex (variant B)
    timedOutCurrent,      \* TestManager.timedOutCurrent (variant B)
    timer,                \* the App's single Timer object
    storage,              \* Storage: history and running statistics
    storageOK,            \* FALSE when localStorage.setItem throws
    ui,                   \* UI.currentScreen and the buttons' disabled flags
    navResetPending,      \* number of pending setTimeout(isNavigating=false,100)
    testsStarted,         \* number of sessions started so far
    lastSel,              \* history: last value the user selected per question
    lastEvent,            \* history: what the last handler run did
    exam,                 \* the ExamController object (src/assets/js/exam.js)
    examStorage,          \* localStorage keys examSessions and currentResult
    examPage,             \* "exam" while the exam page is open
    examTimedOut,         \* history: the displayed question's countdown ran out
    examEvent,            \* history: what the last exam handler run did
    form,                 \* the settings dialog, the settings kept and saved
    tm,                   \* a Timer object on its own and the browser's intervals
    clk,                  \* the exam's clock and per-question time accounting
    gen                   \* a QuestionGenerator on its own

vars == <<variant, currentTest, currentQuestionIndex, userAnswers,
          isNavigating, selectedAnswerIndex, timedOutCurrent, timer, storage,
          storageOK, ui, navResetPending, testsStarted, lastSel, lastEvent,
          exam, examStorage, examPage, examTimedOut, examEvent, form,
          tm, clk, gen>>

linearVars == <<variant, currentTest, currentQuestionIndex,
                userAnswers, isNavigating, selectedAnswerIndex, timedOutCurrent,
                timer, storage, storageOK, ui, navResetPending, testsStarted,
                lastSel, lastEvent>>

examVars == <<exam, examStorage, examPage, examTimedOut, examEvent>>

\* the components that are examined on their own
unitVars == <<form, tm, clk, gen>>

\* parseInt of an empty or non-numeric field: NaN
NotANumber == -1000

\* no settings page is open
NoForm == [page |-> "none", questionCount |-> 10, timerMode |-> "off",
           timerDuration |-> 30,
           currentSettings |-> [questionCount |-> 10, timerMode |-> "off",
                                timerDuration |-> 30],
           saved |-> <<>>, started |-> <<>>,
           lastSubmit |-> [kind |-> "none",
                           settings |-> [questionCount |-> 10, timerMode |-> "off",
                                         timerDuration |-> 30],
                           rejected |-> FALSE, wrote |-> FALSE, began |-> FALSE]]

\* no Timer object is examined
NoTm == [kind |-> "none", timerId |-> 0, duration |-> 0, elapsed |-> 0,
         remaining |-> 0, isRunning |-> FALSE, live |-> {}, starts |-> 0,
         replaced |-> {}, lastCall |-> "none", wasRunning |-> FALSE,
         firedBy |-> 0]

\* the exam clock is not examined
NoClk == [on |-> FALSE, now |-> 0, startTime |-> 0, questionStartTime |-> 0,
          count |-> 0, currentIndex |-> 0, timeSpentByIndex |-> <<>>,
          isExamComplete |-> FALSE, shownFor |-> <<>>, moves |-> 0]

\* no QuestionGenerator is examined
NoGen == [on |-> FALSE]

UnitsIdle ==
    /\ form = NoForm
    /\ tm = NoTm
    /\ clk = NoClk
    /\ gen = NoGen

\* everything but the settings dialog
formRest == <<linearVars, examVars, tm, clk, gen>>

\* everything but the Timer examined on its own
tmRest == <<linearVars, examVars, form, clk, gen>>

\* everything but the exam clock
clkRest == <<linearVars, examVars, form, tm, gen>>

\* everything but the QuestionGenerator examined on its own
genRest == <<linearVars, examVars, form, tm, clk>>

(***************************************************************************)
(* The state the handlers work on, as one record, so that a handler that   *)
(* calls other methods is the composition of their effects.  thrown is set *)
(* when an exception propagates: the rest of every caller is skipped.      *)
(***************************************************************************)
Cur ==
    [currentTest |-> currentTest,
     currentQuestionIndex |-> currentQuestionIndex,
     userAnswers |-> userAnswers,
     isNavigating |-> isNavigating,
     selectedAnswerIndex |-> selectedAnswerIndex,
     timedOutCurrent |-> timedOutCurrent,
     timer |-> timer,
     storage |-> storage,
     ui |-> ui,
     navResetPending |-> navResetPending,
     timeUps |-> 0,
     thrown |-> FALSE]

Install(r) ==
    /\ currentTest' = r.currentTest
    /\ currentQuestionIndex' = r.currentQuestionIndex
    /\ userAnswers' = r.userAnswers
    /\ isNavigating' = r.isNavigating
    /\ selectedAnswerIndex' = r.selectedAnswerIndex
    /\ timedOutCurrent' = r.timedOutCurrent
    /\ timer' = r.timer
    /\ storage' = r.storage
    /\ ui' = r.ui
    /\ navResetPending' = r.navResetPending

(***************************************************************************)
(* Timer (src/js/modules/Timer.js).  elapsed stands for                    *)
(* floor((Date.now() - startTime) / 1000): it is 0 at start and grows by 1 *)
(* with every firing of the 1000 ms interval.                              *)
(***************************************************************************)
\* startedFor is history: the question that was current when the countdown
\* was started, i.e. the question its onComplete callback was created for.
NoTimer == [timerId |-> FALSE, duration |-> 0, elapsed |-> 0, isRunning |-> FALSE,
            startedFor |-> 0]

\* Timer.stop
TimerStop(t) == [t EXCEPT !.timerId = FALSE, !.isRunning = FALSE]

\* Timer.getRemainingTime
getRemainingTime(t) ==
    IF ~t.isRunning THEN t.duration
    ELSE IF t.duration - t.elapsed > 0 THEN t.duration - t.elapsed ELSE 0

\* Timer.start: stops any existing countdown, then installs the new one.
\* Its initial tick() only reports the remaining time: the durations of
\* SettingsSet are positive, so the countdown cannot complete at once.
TimerStart(t, duration) ==
    [t EXCEPT !.timerId = TRUE, !.duration = duration, !.elapsed = 0,
              !.isRunning = TRUE]

(***************************************************************************)
(* Storage (src/js/modules/Storage.js).                                    *)
(***************************************************************************)
HistoryCap == 50

NoStats == [totalTests |-> 0, totalQuestions |-> 0, correctAnswers |-> 0,
            bestScore |-> 0, averageScore |-> 0]

EmptyStorage == [history |-> <<>>, stats |-> NoStats]

Max(a, b) == IF a >= b THEN a ELSE b

\* calculateAverageScore as the mean of the old average and the new score
calculateAverageScore_unweighted(stats, results) ==
    (stats.averageScore + results.scorePercentage + 1) \div 2

\* Storage.calculateAverageScore
calculateAverageScore(stats, results) ==
    LET totalScore == stats.averageScore * stats.totalTests + results.scorePercentage
        n == stats.totalTests + 1
    IN (2 * totalScore + n) \div (2 * n)

\* Storage.updateStats
updateStats(stats, results) ==
    [totalTests |-> stats.totalTests + 1,
     totalQuestions |-> stats.totalQuestions + results.totalQuestions,
     correctAnswers |-> stats.correctAnswers + results.correctCount,
     bestScore |-> Max(stats.bestScore, results.scorePercentage),
     averageScore |-> calculateAverageScore(stats, results)]

\* saveTestResults with history.push in place of history.unshift
saveTestResults_push(st, results) ==
    LET entry == [totalQuestions |-> results.totalQuestions,
                  correctCount |-> results.correctCount,
                  scorePercentage |-> results.scorePercentage]
        h == Append(st.history, entry)
    IN [history |-> IF Len(h) > HistoryCap THEN SubSeq(h, 1, HistoryCap) ELSE h,
        stats |-> updateStats(st.stats, results)]

\* Storage.saveTestResults, when localStorage accepts the write
saveTestResults(st, results) ==
    LET entry == [totalQuestions |-> results.totalQuestions,
                  correctCount |-> results.correctCount,
                  scorePercentage |-> results.scorePercentage]
        h == <<entry>> \o st.history
    IN [history |-> IF Len(h) > HistoryCap THEN SubSeq(h, 1, HistoryCap) ELSE h,
        stats |-> updateStats(st.stats, results)]

(***************************************************************************)
(* TestManager: the methods both revisions share.                          *)
(***************************************************************************)
\* calculateResults with Math.floor in place of Math.round
calculateResults_floor(s) ==
    LET totalQuestions == Len(s.currentTest.questions)
        correctCount == Cardinality({k \in 1..Len(s.userAnswers) :
                                        s.userAnswers[k].isCorrect})
    IN [totalQuestions |-> totalQuestions,
        correctCount |-> correctCount,
        incorrectCount |-> totalQuestions - correctCount,
        scorePercentage |-> (100 * correctCount) \div totalQuestions,
        userAnswers |-> s.userAnswers]

\* TestManager.calculateResults
calculateResults(s) ==
    LET totalQuestions == Len(s.currentTest.questions)
        correctCount == Cardinality({k \in 1..Len(s.userAnswers) :
                                        s.userAnswers[k].isCorrect})
    IN [totalQuestions |-> totalQuestions,
        correctCount |-> correctCount,
        incorrectCount |-> totalQuestions - correctCount,
        scorePercentage |-> RoundPercent(correctCount, totalQuestions),
        userAnswers |-> s.userAnswers]

\* TestManager.endTest
endTest(s) ==
    IF ~s.currentTest.present THEN s
    ELSE
      LET results == calculateResults(s)
          s1 == [s EXCEPT !.timer = TimerStop(s.timer),
                          !.currentTest.results = <<results>>]
      IN IF storageOK
         THEN [s1 EXCEPT !.storage = saveTestResults(s.storage, results),
                         !.ui.currentScreen = "results-screen",
                         !.ui.shown = <<[correctCount |-> results.correctCount,
                                         incorrectCount |-> results.incorrectCount]>>]
         ELSE [s1 EXCEPT !.thrown = TRUE]

\* TestManager.startQuestionTimer / startTotalTimer
startQuestionTimer(s, duration) ==
    [s EXCEPT !.timer = [TimerStart(s.timer, duration)
                            EXCEPT !.startedFor = s.currentQuestionIndex]]

\* showCurrentQuestion that leaves the next button as it was
showCurrentQuestion_nextKept(s) ==
    IF ~s.currentTest.present
          \/ s.currentQuestionIndex >= Len(s.currentTest.questions)
    THEN endTest(s)
    ELSE
      LET s1 == [s EXCEPT !.isNavigating = FALSE,
                          !.selectedAnswerIndex = NoIndex,
                          !.timedOutCurrent = FALSE]
          s2 == IF s.currentTest.settings.timerMode = "per-question"
                THEN startQuestionTimer(s1, s.currentTest.settings.timerDuration)
                ELSE s1
      IN [s2 EXCEPT !.ui.answersEnabled = TRUE]

\* showCurrentQuestion that restarts the countdown in every timer mode
showCurrentQuestion_restartsTotal(s) ==
    IF ~s.currentTest.present
          \/ s.currentQuestionIndex >= Len(s.currentTest.questions)
    THEN endTest(s)
    ELSE
      LET s1 == [s EXCEPT !.isNavigating = FALSE,
                          !.selectedAnswerIndex = NoIndex,
                          !.timedOutCurrent = FALSE]
          s2 == IF s.currentTest.settings.timerMode # "off"
                THEN startQuestionTimer(s1, s.currentTest.settings.timerDuration)
                ELSE s1
      IN [s2 EXCEPT !.ui.answersEnabled = TRUE, !.ui.nextDisabled = TRUE]

\* TestManager.showCurrentQuestion
showCurrentQuestion(s) ==
    IF ~s.currentTest.present
          \/ s.currentQuestionIndex >= Len(s.currentTest.questions)
    THEN endTest(s)
    ELSE
      LET s1 == [s EXCEPT !.isNavigating = FALSE,
                          !.selectedAnswerIndex = NoIndex,
                          !.timedOutCurrent = FALSE]
          s2 == IF s.currentTest.settings.timerMode = "per-question"
                THEN startQuestionTimer(s1, s.currentTest.settings.timerDuration)
                ELSE s1
      IN [s2 EXCEPT !.ui.answersEnabled = TRUE, !.ui.nextDisabled = TRUE]

\* TestManager.cleanup
cleanup(s) ==
    [s EXCEPT !.timer = TimerStop(s.timer),
              !.currentTest = NoTest,
              !.currentQuestionIndex = 0,
              !.userAnswers = <<>>,
              !.isNavigating = FALSE]

\* startTest that does not clean up the session it replaces
startTest_nocleanup(s, settings, questions) ==
    LET s2 == [s EXCEPT !.currentTest = [present |-> TRUE, settings |-> settings,
                                         questions |-> questions, results |-> <<>>],
                        !.currentQuestionIndex = 0,
                        !.userAnswers = <<>>,
                        !.isNavigating = FALSE,
                        !.selectedAnswerIndex = NoIndex,
                        !.timedOutCurrent = FALSE]
        s3 == IF settings.timerMode # "off"
              THEN startQuestionTimer(s2, settings.timerDuration)
              ELSE s2
        s4 == [s3 EXCEPT !.ui.currentScreen = "test-screen"]
    IN showCurrentQuestion(s4)

\* TestManager.startTest, with the questions the generator returned
startTest(s, settings, questions) ==
    LET s1 == cleanup(s)
        s2 == [s1 EXCEPT !.currentTest = [present |-> TRUE, settings |-> settings,
                                          questions |-> questions, results |-> <<>>],
                         !.currentQuestionIndex = 0,
                         !.userAnswers = <<>>,
                         !.isNavigating = FALSE,
                         !.selectedAnswerIndex = NoIndex,
                         !.timedOutCurrent = FALSE]
        s3 == IF settings.timerMode # "off"
              THEN startQuestionTimer(s2, settings.timerDuration)
              ELSE s2
        s4 == [s3 EXCEPT !.ui.currentScreen = "test-screen"]
    IN showCurrentQuestion(s4)

\* TestManager.canProceed
canProceed(s) ==
    /\ s.currentTest.present
    /\ s.currentQuestionIndex < Len(s.currentTest.questions)

(***************************************************************************)
(* TestManager, revision A (src/js/modules/TestManager.js).                *)
(***************************************************************************)
\* TestManager.selectAnswer (A): the choice is kept on the question object
selectAnswerA(s, answerIndex) ==
    IF ~s.currentTest.present \/ s.isNavigating THEN s
    ELSE IF s.currentQuestionIndex >= Len(s.currentTest.questions)
    THEN [s EXCEPT !.thrown = TRUE]
    ELSE
      LET q == s.currentQuestionIndex + 1
          selectedAnswer == s.currentTest.questions[q].answers[answerIndex + 1]
      IN [s EXCEPT !.currentTest.questions[q].selectedAnswer = selectedAnswer,
                   !.ui.nextDisabled = FALSE]

\* processAnswer without its isNavigating guard
processAnswer_unguarded(s) ==
    IF ~s.currentTest.present THEN s
    ELSE
      LET question == s.currentTest.questions[s.currentQuestionIndex + 1]
      IN IF question.selectedAnswer = NoAnswer \/ question.selectedAnswer = 0
         THEN s
         ELSE [s EXCEPT !.userAnswers = Append(s.userAnswers,
                  [questionIndex |-> s.currentQuestionIndex,
                   userAnswer |-> question.selectedAnswer,
                   isCorrect |-> validateAnswer(question, question.selectedAnswer)])]

\* TestManager.processAnswer (A)
processAnswer(s) ==
    IF ~s.currentTest.present \/ s.isNavigating THEN s
    ELSE
      LET question == s.currentTest.questions[s.currentQuestionIndex + 1]
      IN \* if (!question.selectedAnswer) return;  undefined and 0 are falsy
         IF question.selectedAnswer = NoAnswer \/ question.selectedAnswer = 0
         THEN s
         ELSE [s EXCEPT !.userAnswers = Append(s.userAnswers,
                  [questionIndex |-> s.currentQuestionIndex,
                   userAnswer |-> question.selectedAnswer,
                   isCorrect |-> validateAnswer(question, question.selectedAnswer)])]

\* TestManager.nextQuestion (A)
nextQuestionA(s) ==
    IF s.isNavigating THEN s
    ELSE
      LET s1 == [s EXCEPT !.isNavigating = TRUE]
          s2 == processAnswer(s1)
          s3 == [s2 EXCEPT !.currentQuestionIndex = s2.currentQuestionIndex + 1]
          s4 == IF ~s3.currentTest.present
                THEN [s3 EXCEPT !.thrown = TRUE]
                ELSE IF s3.currentQuestionIndex >= Len(s3.currentTest.questions)
                THEN endTest(s3)
                ELSE showCurrentQuestion(s3)
      IN IF s4.thrown THEN s4
         ELSE [s4 EXCEPT !.navResetPending = s4.navResetPending + 1]

\* handleTimeUp (A) that advances without logging the timed-out question
handleTimeUpA_nopush(s) ==
    LET s0 == [s EXCEPT !.timeUps = s.timeUps + 1]
    IN IF s.currentTest.settings.timerMode = "per-question"
       THEN nextQuestionA(s0)
       ELSE IF s.currentTest.settings.timerMode = "total-time"
       THEN endTest(s0)
       ELSE s0

\* TestManager.handleTimeUp (A)
handleTimeUpA(s) ==
    LET s0 == [s EXCEPT !.timeUps = s.timeUps + 1]
    IN IF s.currentTest.settings.timerMode = "per-question"
       THEN nextQuestionA([s0 EXCEPT !.userAnswers = Append(s.userAnswers,
                [questionIndex |-> s.currentQuestionIndex,
                 userAnswer |-> NoAnswer,
                 isCorrect |-> FALSE])])
       ELSE IF s.currentTest.settings.timerMode = "total-time"
       THEN endTest(s0)
       ELSE s0

(***************************************************************************)
(* TestManager, revision B (src/unnamed/part_001).                         *)
(***************************************************************************)
\* TestManager.selectAnswer (B): the choice is kept as an index
selectAnswerB(s, answerIndex) ==
    IF ~s.currentTest.present \/ s.isNavigating \/ s.timedOutCurrent THEN s
    ELSE [s EXCEPT !.selectedAnswerIndex = answerIndex,
                   !.ui.nextDisabled = FALSE]

\* nextQuestion (B) that records the selection even after a timeout
nextQuestionB_keepsSelection(s) ==
    IF s.isNavigating THEN s
    ELSE IF ~s.currentTest.present
    THEN [s EXCEPT !.isNavigating = TRUE, !.thrown = TRUE]
    ELSE IF s.currentQuestionIndex >= Len(s.currentTest.questions)
    THEN \* question is undefined: reading question.answers throws before the
         \* push, writing question.userAnswer throws after it
         IF ~s.timedOutCurrent /\ s.selectedAnswerIndex # NoIndex
         THEN [s EXCEPT !.isNavigating = TRUE, !.thrown = TRUE]
         ELSE [s EXCEPT !.isNavigating = TRUE, !.thrown = TRUE,
                        !.userAnswers = Append(s.userAnswers,
                            [questionIndex |-> s.currentQuestionIndex,
                             userAnswer |-> NoAnswer,
                             isCorrect |-> FALSE])]
    ELSE
      LET s1 == [s EXCEPT !.isNavigating = TRUE]
          question == s.currentTest.questions[s.currentQuestionIndex + 1]
          answered == s.selectedAnswerIndex # NoIndex
          userAnswer == IF answered
                        THEN question.answers[s.selectedAnswerIndex + 1]
                        ELSE NoAnswer
          isCorrect == IF answered THEN validateAnswer(question, userAnswer)
                       ELSE FALSE
          s2 == [s1 EXCEPT !.userAnswers = Append(s.userAnswers,
                    [questionIndex |-> s.currentQuestionIndex,
                     userAnswer |-> userAnswer,
                     isCorrect |-> isCorrect]),
                   !.currentQuestionIndex = s.currentQuestionIndex + 1]
          s3 == IF s2.currentQuestionIndex >= Len(s2.currentTest.questions)
                THEN endTest(s2)
                ELSE showCurrentQuestion(s2)
      IN IF s3.thrown THEN s3
         ELSE [s3 EXCEPT !.navResetPending = s3.navResetPending + 1]

\* TestManager.nextQuestion (B)
nextQuestionB(s) ==
    IF s.isNavigating THEN s
    ELSE IF ~s.currentTest.present
    THEN [s EXCEPT !.isNavigating = TRUE, !.thrown = TRUE]
    ELSE IF s.currentQuestionIndex >= Len(s.currentTest.questions)
    THEN \* question is undefined: reading question.answers throws before the
         \* push, writing question.userAnswer throws after it
         IF ~s.timedOutCurrent /\ s.selectedAnswerIndex # NoIndex
         THEN [s EXCEPT !.isNavigating = TRUE, !.thrown = TRUE]
         ELSE [s EXCEPT !.isNavigating = TRUE, !.thrown = TRUE,
                        !.userAnswers = Append(s.userAnswers,
                            [questionIndex |-> s.currentQuestionIndex,
                             userAnswer |-> NoAnswer,
                             isCorrect |-> FALSE])]
    ELSE
      LET s1 == [s EXCEPT !.isNavigating = TRUE]
          question == s.currentTest.questions[s.currentQuestionIndex + 1]
          answered == ~s.timedOutCurrent /\ s.selectedAnswerIndex # NoIndex
          userAnswer == IF answered
                        THEN question.answers[s.selectedAnswerIndex + 1]
                        ELSE NoAnswer
          isCorrect == IF answered THEN validateAnswer(question, userAnswer)
                       ELSE FALSE
          s2 == [s1 EXCEPT !.userAnswers = Append(s.userAnswers,
                    [questionIndex |-> s.currentQuestionIndex,
                     userAnswer |-> userAnswer,
                     isCorrect |-> isCorrect]),
                   !.currentQuestionIndex = s.currentQuestionIndex + 1]
          s3 == IF s2.currentQuestionIndex >= Len(s2.currentTest.questions)
                THEN endTest(s2)
                ELSE showCurrentQuestion(s2)
      IN IF s3.thrown THEN s3
         ELSE [s3 EXCEPT !.navResetPending = s3.navResetPending + 1]

\* TestManager.handleTimeUp (B)
handleTimeUpB(s) ==
    LET s0 == [s EXCEPT !.timeUps = s.timeUps + 1]
    IN IF s.currentTest.settings.timerMode = "per-question"
       THEN [s0 EXCEPT !.timedOutCurrent = TRUE,
                       !.ui.answersEnabled = FALSE,
                       !.ui.nextDisabled = FALSE]
       ELSE IF s.currentTest.settings.timerMode = "total-time"
       THEN endTest(s0)
       ELSE s0

(***************************************************************************)
(* Dispatch on the revision that is running.                               *)
(***************************************************************************)
selectAnswer(s, answerIndex) ==
    IF variant = "A" THEN selectAnswerA(s, answerIndex)
    ELSE selectAnswerB(s, answerIndex)

nextQuestion(s) ==
    IF variant = "A" THEN nextQuestionA(s) ELSE nextQuestionB(s)

handleTimeUp(s) ==
    IF variant = "A" THEN handleTimeUpA(s) ELSE handleTimeUpB(s)

\* Timer.tick, run by the interval: elapsed has just grown by one second
TimerTick(s) ==
    LET t == [s.timer EXCEPT !.elapsed = s.timer.elapsed + 1]
    IN IF getRemainingTime(t) <= 0
       THEN handleTimeUp([s EXCEPT !.timer = TimerStop(t)])
       ELSE [s EXCEPT !.timer = t]

(***************************************************************************)
(* The events of the page (App.setupEventListeners, handleKeyboardShortcuts *)
(* and the callbacks of setInterval / setTimeout).  A button fires a click  *)
(* only while its screen is the active one and it is not disabled.          *)
(***************************************************************************)
\* the exam page is not open
NoExam == [present |-> FALSE]

NoExamEvent == [kind |-> "none", timeouts |-> 0, position |-> 0]

ExamClosed ==
    /\ exam = NoExam
    /\ examStorage = [examSessions |-> <<>>, currentResult |-> <<>>]
    /\ examPage = "closed"
    /\ examTimedOut = FALSE
    /\ examEvent = NoExamEvent

InitUI == [currentScreen |-> "welcome-screen", nextDisabled |-> TRUE,
           answersEnabled |-> TRUE, shown |-> <<>>]

NoEvent == [kind |-> "none", index |-> 0, logLen |-> 0, hadSelection |-> FALSE,
            timedOut |-> FALSE, cooling |-> FALSE, answer |-> NoIndex,
            timeUps |-> 0, timerWasRunning |-> FALSE, thrown |-> FALSE]

\* a selection exists for the current question (either revision)
HasSelection ==
    /\ currentTest.present
    /\ currentQuestionIndex < Len(currentTest.questions)
    /\ IF variant = "A"
       THEN currentTest.questions[currentQuestionIndex + 1].selectedAnswer # NoAnswer
       ELSE selectedAnswerIndex # NoIndex

\* the session has ended: its Result has been computed
Completed == currentTest.present /\ currentTest.results # <<>>

\* the session is under way
Running == currentTest.present /\ currentTest.results = <<>>

Event(kind, answer, r) ==
    [kind |-> kind, index |-> currentQuestionIndex, logLen |-> Len(userAnswers),
     hadSelection |-> HasSelection, timedOut |-> timedOutCurrent,
     cooling |-> navResetPending > 0, answer |-> answer,
     timeUps |-> r.timeUps, timerWasRunning |-> timer.isRunning,
     thrown |-> r.thrown]

\* no TestManager session: the objects as their constructors leave them
LinearFresh ==
    /\ currentTest = NoTest
    /\ currentQuestionIndex = 0
    /\ userAnswers = <<>>
    /\ isNavigating = FALSE
    /\ selectedAnswerIndex = NoIndex
    /\ timedOutCurrent = FALSE
    /\ timer = NoTimer
    /\ storage = EmptyStorage
    /\ ui = InitUI
    /\ navResetPending = 0
    /\ testsStarted = 0
    /\ lastSel = <<>>
    /\ lastEvent = NoEvent

\* the state of the linear part before any Start, localStorage writable
LinearIdle ==
    /\ LinearFresh
    /\ storageOK = TRUE

Init ==
    /\ variant \in {"A", "B"}
    /\ LinearIdle
    /\ ExamClosed
    /\ UnitsIdle

Screens == {"welcome-screen", "test-screen", "results-screen"}

\* TestManager.startTest(settings) called while one of screens is shown and
\* fewer than limit sessions have been started on this page
StartFrom(screens, limit) ==
    /\ ui.currentScreen \in screens
    /\ testsStarted < limit
    /\ \E settings \in SettingsSet :
         \E questions \in generateTestQuestions(settings.questionCount) :
           LET r == startTest(Cur, settings, questions)
           IN /\ Install(r)
              /\ lastSel' = [i \in 1..settings.questionCount |-> NoAnswer]
              /\ lastEvent' = Event("start", NoIndex, r)
    /\ testsStarted' = testsStarted + 1
    /\ UNCHANGED <<variant, storageOK>>
    /\ UNCHANGED examVars
    /\ UNCHANGED unitVars

\* click on #practice-mode / #exam-mode: App.startTest -> TestManager.startTest
StartClick == StartFrom({"welcome-screen"}, MaxTests)

\* what the user picked, when there is a current question to pick for
RecordSelection(answerIndex) ==
    IF currentTest.present /\ currentQuestionIndex < Len(currentTest.questions)
    THEN [lastSel EXCEPT ![currentQuestionIndex + 1] =
            currentTest.questions[currentQuestionIndex + 1].answers[answerIndex + 1]]
    ELSE lastSel

\* click on an answer button (listener of enableAnswerButtons)
SelectClick ==
    /\ ui.currentScreen = "test-screen"
    /\ ui.answersEnabled
    /\ \E answerIndex \in PressedIndices :
         LET r == selectAnswer(Cur, answerIndex)
         IN /\ Install(r)
            /\ lastSel' = RecordSelection(answerIndex)
            /\ lastEvent' = Event("select", answerIndex, r)
    /\ UNCHANGED <<variant, storageOK, testsStarted>>
    /\ UNCHANGED examVars
    /\ UNCHANGED unitVars

\* keys 1..4 (App.handleKeyboardShortcuts)
SelectKey ==
    /\ ui.currentScreen = "test-screen"
    /\ \E answerIndex \in PressedIndices :
         LET r == selectAnswer(Cur, answerIndex)
         IN /\ Install(r)
            /\ lastSel' = RecordSelection(answerIndex)
            /\ lastEvent' = Event("select", answerIndex, r)
    /\ UNCHANGED <<variant, storageOK, testsStarted>>
    /\ UNCHANGED examVars
    /\ UNCHANGED unitVars

\* click on #next-question: the listener asks canProceed() first
NextClick ==
    /\ ui.currentScreen = "test-screen"
    /\ ~ui.nextDisabled
    /\ LET r == IF canProceed(Cur) THEN nextQuestion(Cur) ELSE Cur
       IN /\ Install(r)
          /\ lastEvent' = Event("next", NoIndex, r)
    /\ UNCHANGED <<variant, storageOK, testsStarted, lastSel>>
    /\ UNCHANGED examVars
    /\ UNCHANGED unitVars

\* click on #end-test
EndClick ==
    /\ ui.currentScreen = "test-screen"
    /\ LET r == endTest(Cur)
       IN /\ Install(r)
          /\ lastEvent' = Event("end", NoIndex, r)
    /\ UNCHANGED <<variant, storageOK, testsStarted, lastSel>>
    /\ UNCHANGED examVars
    /\ UNCHANGED unitVars

\* click on #new-test (results screen)
NewTestClick ==
    /\ ui.currentScreen = "results-screen"
    /\ ui' = [ui EXCEPT !.currentScreen = "welcome-screen"]
    /\ lastEvent' = Event("new-test", NoIndex, Cur)
    /\ UNCHANGED <<variant, currentTest, currentQuestionIndex,
                   userAnswers, isNavigating, selectedAnswerIndex,
                   timedOutCurrent, timer, storage, storageOK, navResetPending,
                   testsStarted, lastSel>>
    /\ UNCHANGED examVars
    /\ UNCHANGED unitVars

\* the 1000 ms interval of the Timer fires.  In per-question mode the
\* countdown was (re)started by the handler that scheduled the latest 100 ms
\* reset of isNavigating, so that reset has fired before the first tick.
TimerInterval ==
    /\ timer.timerId
    /\ currentTest.settings.timerMode = "per-question" => navResetPending = 0
    /\ LET r == TimerTick(Cur)
       IN /\ Install(r)
          /\ lastEvent' = Event("tick", NoIndex, r)
    /\ UNCHANGED <<variant, storageOK, testsStarted, lastSel>>
    /\ UNCHANGED examVars
    /\ UNCHANGED unitVars

\* the callback of setTimeout(() => { this.isNavigating = false }, 100)
NavResetTimeout ==
    /\ navResetPending > 0
    /\ navResetPending' = navResetPending - 1
    /\ isNavigating' = FALSE
    /\ lastEvent' = Event("nav-reset", NoIndex, Cur)
    /\ UNCHANGED <<variant, currentTest, currentQuestionIndex,
                   userAnswers, selectedAnswerIndex, timedOutCurrent, timer,
                   storage, storageOK, ui, testsStarted, lastSel>>
    /\ UNCHANGED examVars
    /\ UNCHANGED unitVars

Next ==
    \/ StartClick
    \/ SelectClick
    \/ SelectKey
    \/ NextClick
    \/ EndClick
    \/ NewTestClick
    \/ TimerInterval
    \/ NavResetTimeout

Spec == Init /\ [][Next]_vars

(***************************************************************************)
(* Sessions following one another on the same TestManager: startTest is    *)
(* called again in whatever state the first session is, running or not.    *)
(***************************************************************************)
\* TestManager.startTest called in any state, at most two sessions a page
StartCall == StartFrom(Screens, 2)

NextRestart ==
    \/ StartCall
    \/ SelectClick
    \/ SelectKey
    \/ NextClick
    \/ EndClick
    \/ NewTestClick
    \/ TimerInterval
    \/ NavResetTimeout

SpecRestart == Init /\ [][NextRestart]_vars

\* C11: right after Start(settings), from any prior state including a running
\* session, the session has exactly settings.questionCount questions, index 0
\* and an empty answer log, its timer runs if and only if timerMode is not
\* 'off', and a running timer is the one just started for the first question
\* with the configured duration: no countdown of the previous session remains.
C11_StartResetsSession ==
    lastEvent.kind = "start" =>
        /\ currentTest.present
        /\ Len(currentTest.questions) = currentTest.settings.questionCount
        /\ currentQuestionIndex = 0
        /\ userAnswers = <<>>
        /\ timer.isRunning <=> (currentTest.settings.timerMode # "off")
        /\ timer.timerId <=> (currentTest.settings.timerMode # "off")
        /\ timer.isRunning =>
             /\ timer.duration = currentTest.settings.timerDuration
             /\ timer.elapsed = 0
             /\ timer.startedFor = 0

\* a second session started with the timer off while the first one, which
\* never reached its end (nothing was saved), had its countdown running
C11_Witness ==
    /\ lastEvent.kind = "start"
    /\ testsStarted = 2
    /\ storage.history = <<>>
    /\ lastEvent.timerWasRunning
    /\ currentTest.settings.timerMode = "off"

(***************************************************************************)
(* The linear session on a browser whose localStorage may refuse writes    *)
(* (quota exceeded, storage disabled): setItem then throws on every write. *)
(***************************************************************************)
InitStorage ==
    /\ variant \in {"A", "B"}
    /\ LinearFresh
    /\ storageOK \in BOOLEAN
    /\ ExamClosed
    /\ UnitsIdle

SpecStorage == InitStorage /\ [][Next]_vars

\* C12: a storage write failure while the Result is persisted never aborts
\* the session: after End, or an Advance or timeout that ends the session, no
\* exception has propagated out of the handler, the session is Completed with
\* its Result presented on the results screen, and a set navigation guard has
\* its reset pending.
C12_StorageFailureTolerated ==
    (Completed /\ lastEvent.kind \in {"next", "end", "tick"}) =>
        /\ ~lastEvent.thrown
        /\ ui.currentScreen = "results-screen"
        /\ ui.shown # <<>>
        /\ (isNavigating => navResetPending > 0)

(***************************************************************************)
(* Properties of the linear session.                                       *)
(***************************************************************************)
TimerMode == currentTest.settings.timerMode

NumQuestions == Len(currentTest.questions)

\* the Result computed at End
Result == currentTest.results[1]

\* every question was advanced past, each with a selection made on it
AllSelectedAndAdvanced ==
    /\ Completed
    /\ currentQuestionIndex = NumQuestions
    /\ \A i \in 1..NumQuestions : lastSel[i] # NoAnswer

\* the questions whose last selected value is the correct answer
CorrectlySelected ==
    {i \in 1..NumQuestions : lastSel[i] = currentTest.questions[i].correctAnswer}

\* C1: with the timer off, when the user selects an option on every question
\* and then advances, the Result has correctCount = the number of questions
\* whose last selected value equals correctAnswer, and selecting the correct
\* option everywhere scores 100.
C1_ScoreCountsLastSelections ==
    (TimerMode = "off" /\ AllSelectedAndAdvanced) =>
        /\ Result.correctCount = Cardinality(CorrectlySelected)
        /\ (Cardinality(CorrectlySelected) = NumQuestions
              => Result.scorePercentage = 100)

\* C3: the answer log has at most one entry per question and never more
\* entries than there are questions.
C3_LogAtMostOnePerQuestion ==
    /\ Len(userAnswers) <= NumQuestions
    /\ \A j, k \in 1..Len(userAnswers) :
         j # k => userAnswers[j].questionIndex # userAnswers[k].questionIndex

\* a finished two-question session in which selections, a timeout and
\* advances all took place and every question has its entry
C3_Witness ==
    /\ Completed
    /\ NumQuestions >= 2
    /\ Len(userAnswers) = NumQuestions
    /\ \E k \in 1..Len(userAnswers) : userAnswers[k].userAnswer = NoAnswer
    /\ \E i \in 1..NumQuestions : lastSel[i] # NoAnswer

\* C4: an Advance takes effect only when the current question has a
\* selection or has timed out; an Advance requested in any other state
\* leaves the index and the answer log unchanged.
C4_AdvanceNeedsSelectionOrTimeout ==
    (lastEvent.kind = "next" /\ ~lastEvent.hadSelection /\ ~lastEvent.timedOut) =>
        /\ currentQuestionIndex = lastEvent.index
        /\ Len(userAnswers) = lastEvent.logLen

\* an Advance took effect on the second question, after a selection on it
C4_Witness ==
    /\ lastEvent.kind = "next"
    /\ lastEvent.hadSelection
    /\ lastEvent.index = 1
    /\ currentQuestionIndex = 2

\* C5: an Advance call that arrives before the 100 ms cooldown of the
\* previous accepted Advance has elapsed is ignored: the index and the
\* answer log stay as they were.
C5_AdvanceIgnoredDuringCooldown ==
    (lastEvent.kind = "next" /\ lastEvent.cooling) =>
        /\ currentQuestionIndex = lastEvent.index
        /\ Len(userAnswers) = lastEvent.logLen

\* the interval callback that has just run delivered a per-question timeout
TimeoutDelivered ==
    /\ lastEvent.kind = "tick"
    /\ lastEvent.timeUps > 0
    /\ currentTest.present
    /\ TimerMode = "per-question"

\* C7: in revision A each per-question timeout appends exactly one entry
\* for the current question, with a null answer marked incorrect, and moves
\* the index on by exactly one, ending the session after the last question,
\* whatever was selected before.
C7_TimeoutAutoAdvances ==
    (variant = "A" /\ TimeoutDelivered) =>
        /\ Len(userAnswers) = lastEvent.logLen + 1
        /\ userAnswers[Len(userAnswers)] =
              [questionIndex |-> lastEvent.index, userAnswer |-> NoAnswer,
               isCorrect |-> FALSE]
        /\ currentQuestionIndex = lastEvent.index + 1
        /\ (currentQuestionIndex = NumQuestions <=> Completed)

\* a timeout on the last question, on which an answer had been selected
C7_Witness ==
    /\ variant = "A"
    /\ TimeoutDelivered
    /\ lastEvent.hadSelection
    /\ lastEvent.index > 0
    /\ Completed

\* C8: in revision B a per-question timeout locks the current question and
\* changes neither the index, the answer log nor the score; afterwards only
\* an explicit Advance moves on, and the entry it records for the timed-out
\* question is null / incorrect.
C8_TimeoutLocksUntilAdvance ==
    [][ (variant = "B" /\ currentTest.present /\ TimerMode = "per-question") =>
          /\ (lastEvent'.kind = "tick" /\ lastEvent'.timeUps > 0) =>
                /\ timedOutCurrent'
                /\ currentQuestionIndex' = currentQuestionIndex
                /\ userAnswers' = userAnswers
                /\ currentTest' = currentTest
          /\ (timedOutCurrent /\ lastEvent'.kind # "start") =>
                /\ selectedAnswerIndex' # selectedAnswerIndex
                      => currentQuestionIndex' # currentQuestionIndex
                /\ currentQuestionIndex' # currentQuestionIndex =>
                      /\ lastEvent'.kind = "next"
                      /\ currentQuestionIndex' = currentQuestionIndex + 1
                      /\ userAnswers' = Append(userAnswers,
                            [questionIndex |-> currentQuestionIndex,
                             userAnswer |-> NoAnswer, isCorrect |-> FALSE])
      ]_vars

\* an Advance was accepted on a timed-out question that had a selection
C8_Witness ==
    /\ variant = "B"
    /\ lastEvent.kind = "next"
    /\ lastEvent.timedOut
    /\ lastEvent.hadSelection
    /\ Len(userAnswers) = lastEvent.logLen + 1
    /\ userAnswers[Len(userAnswers)].userAnswer = NoAnswer

(***************************************************************************)
(* Part II - the free-navigation exam (src/assets/js/exam.js).             *)
(***************************************************************************)
\* tempSelections[i] is undefined
NoPosition == 0

\* the answer buttons the user presses (option positions, 1-based)
PressedPositions == {2, 3}

ExamOption(value, position, correctAnswer) ==
    [value |-> value, position |-> position, isCorrect |-> value = correctAnswer]

\* The i-th question of an exam, as the exam's QuestionGenerator builds it
\* (avoidDuplicates: the factor pairs differ): (i-1) x 6, the correct answer
\* at position 2 on odd questions and at position 3 on even ones, so that
\* each pressed position is right on some questions and wrong on others.
ExamQuestion(i) ==
    LET c == (i - 1) * 6
    IN [correctAnswer |-> c,
        options |-> IF i % 2 = 1
                    THEN <<ExamOption(c + 1, 1, c), ExamOption(c, 2, c),
                           ExamOption(c + 2, 3, c), ExamOption(c + 10, 4, c)>>
                    ELSE <<ExamOption(c + 1, 1, c), ExamOption(c + 10, 2, c),
                           ExamOption(c, 3, c), ExamOption(c + 2, 4, c)>>]

\* questionGenerator.generateQuestions(count, ...)
generateQuestions(count) == [i \in 1..count |-> ExamQuestion(i)]

(***************************************************************************)
(* Timer of src/unnamed/part_005 (utils.js): remaining counts down by one  *)
(* with every firing of its 1000 ms interval.                              *)
(***************************************************************************)
\* forIndex is history: the question that was displayed when the Timer was
\* created, i.e. the question its onComplete callback was created for.
NoTimerObject == [exists |-> FALSE, remaining |-> 0, isRunning |-> FALSE,
                  forIndex |-> 0]

\* new Timer(duration, onTick, onComplete)
NewTimer(duration) == [exists |-> TRUE, remaining |-> duration,
                       isRunning |-> FALSE, forIndex |-> 0]

\* Timer.start (utils)
UtilTimerStart(t) == IF t.isRunning THEN t ELSE [t EXCEPT !.isRunning = TRUE]

\* Timer.stop (utils)
UtilTimerStop(t) == IF ~t.isRunning THEN t ELSE [t EXCEPT !.isRunning = FALSE]

\* if (this.xTimer) this.xTimer.stop()
StopIfExists(t) == IF t.exists THEN UtilTimerStop(t) ELSE t

(***************************************************************************)
(* ExamController.  The handlers work on the record                        *)
(* [ctl, store, timedOut, timeouts].                                       *)
(***************************************************************************)
ExamCur == [ctl |-> exam, store |-> examStorage, timedOut |-> examTimedOut,
            timeouts |-> 0]

ExamInstall(x) ==
    /\ exam' = x.ctl
    /\ examStorage' = x.store
    /\ examTimedOut' = x.timedOut

\* ExamController.buildAnswersFromSelections
buildAnswersFromSelections(x) ==
    [x EXCEPT !.ctl.answers =
        [index \in 1..Len(x.ctl.questions) |->
            LET position == x.ctl.tempSelections[index]
                q == x.ctl.questions[index]
                found == position # NoPosition
                           /\ \E k \in 1..Len(q.options) : q.options[k].position = position
                option == CHOOSE o \in {q.options[k] : k \in 1..Len(q.options)} :
                              found => o.position = position
            IN [questionIndex |-> index - 1,
                selectedAnswer |-> IF found THEN option.value ELSE NoAnswer,
                isCorrect |-> IF found THEN option.isCorrect ELSE FALSE,
                skipped |-> ~found]]]

\* ExamController.saveExamResult
saveExamResult(x, correctCount, wrongCount, skippedCount, score) ==
    LET result == [score |-> score, correctCount |-> correctCount,
                   wrongCount |-> wrongCount, skippedCount |-> skippedCount,
                   totalQuestions |-> Len(x.ctl.questions)]
    IN [x EXCEPT !.store.examSessions = Append(x.store.examSessions, result),
                 !.store.currentResult = <<result>>]

\* completeExam that counts every answer that is not correct as wrong
completeExam_wrongIncludesSkipped(x) ==
    LET x1 == [x EXCEPT !.ctl.isExamComplete = TRUE,
                        !.ctl.examTimer = StopIfExists(x.ctl.examTimer),
                        !.ctl.questionTimer = StopIfExists(x.ctl.questionTimer)]
        x2 == buildAnswersFromSelections(x1)
        a == x2.ctl.answers
        correctCount == Cardinality({i \in 1..Len(a) : a[i].isCorrect})
        wrongCount == Cardinality({i \in 1..Len(a) : ~a[i].isCorrect})
        skippedCount == Cardinality({i \in 1..Len(a) : a[i].skipped})
        score == RoundPercent(correctCount, Len(x2.ctl.questions))
    IN saveExamResult([x2 EXCEPT !.ctl.modalShown = TRUE],
                      correctCount, wrongCount, skippedCount, score)

\* ExamController.completeExam
completeExam(x) ==
    LET x1 == [x EXCEPT !.ctl.isExamComplete = TRUE,
                        !.ctl.examTimer = StopIfExists(x.ctl.examTimer),
                        !.ctl.questionTimer = StopIfExists(x.ctl.questionTimer)]
        x2 == buildAnswersFromSelections(x1)
        a == x2.ctl.answers
        correctCount == Cardinality({i \in 1..Len(a) : a[i].isCorrect})
        wrongCount == Cardinality({i \in 1..Len(a) : ~a[i].isCorrect /\ ~a[i].skipped})
        skippedCount == Cardinality({i \in 1..Len(a) : a[i].skipped})
        score == RoundPercent(correctCount, Len(x2.ctl.questions))
    IN saveExamResult([x2 EXCEPT !.ctl.modalShown = TRUE],
                      correctCount, wrongCount, skippedCount, score)

\* ExamController.startQuestionTimer
examStartQuestionTimer(x) ==
    [x EXCEPT !.ctl.questionTimer =
        [UtilTimerStart(NewTimer(x.ctl.settings.timerDuration))
            EXCEPT !.forIndex = x.ctl.currentIndex]]

\* ExamController.showQuestion
showQuestion(x) ==
    IF x.ctl.currentIndex >= Len(x.ctl.questions) THEN completeExam(x)
    ELSE LET x1 == [x EXCEPT !.timedOut = FALSE]
         IN IF x.ctl.settings.timerMode = "per-question"
            THEN examStartQuestionTimer(x1)
            ELSE x1

\* ExamController.startExamTimer
startExamTimer(x) ==
    IF x.ctl.settings.timerMode = "total-time"
    THEN [x EXCEPT !.ctl.examTimer = UtilTimerStart(NewTimer(x.ctl.settings.timerDuration))]
    ELSE x

\* ExamController.startExam, with the questions the generator returned
startExam(settings, questions, store) ==
    LET x == [ctl |-> [present |-> TRUE, settings |-> settings,
                       questions |-> questions, currentIndex |-> 0,
                       answers |-> <<>>,
                       tempSelections |-> [i \in 1..Len(questions) |-> NoPosition],
                       isExamComplete |-> FALSE,
                       questionTimer |-> NoTimerObject,
                       examTimer |-> NoTimerObject,
                       modalShown |-> FALSE],
              store |-> store, timedOut |-> FALSE, timeouts |-> 0]
    IN startExamTimer(showQuestion(x))

\* selectAnswer that stores the selection under the first question
examSelectAnswer_first(x, position) ==
    [x EXCEPT !.ctl.tempSelections[1] = position]

\* ExamController.selectAnswer: every position 1..4 has its button
examSelectAnswer(x, position) ==
    [x EXCEPT !.ctl.tempSelections[x.ctl.currentIndex + 1] = position]

\* ExamController.captureTimeSpent
captureTimeSpent(x) ==
    [x EXCEPT !.ctl.questionTimer = StopIfExists(x.ctl.questionTimer)]

\* ExamController.requestFinalizeAndComplete
requestFinalizeAndComplete(x) ==
    completeExam(buildAnswersFromSelections(captureTimeSpent(x)))

\* ExamController.requestEndExam; confirmed is the user's answer to confirm()
requestEndExam(x, confirmed) ==
    IF confirmed THEN requestFinalizeAndComplete(x) ELSE x

\* ExamController.goPrev
goPrev(x) ==
    LET x1 == captureTimeSpent(x)
    IN IF x1.ctl.currentIndex > 0
       THEN showQuestion([x1 EXCEPT !.ctl.currentIndex = x1.ctl.currentIndex - 1])
       ELSE x1

\* ExamController.goNext
goNext(x, confirmed) ==
    LET x1 == captureTimeSpent(x)
    IN IF x1.ctl.currentIndex < Len(x1.ctl.questions) - 1
       THEN showQuestion([x1 EXCEPT !.ctl.currentIndex = x1.ctl.currentIndex + 1])
       ELSE IF x1.ctl.currentIndex = Len(x1.ctl.questions) - 1
       THEN requestEndExam(x1, confirmed)
       ELSE x1

\* ExamController.autoSubmitExam
autoSubmitExam(x) == requestFinalizeAndComplete(x)

(***************************************************************************)
(* The events of the exam page (ExamController.bindEvents and the timers'  *)
(* intervals).  The key handlers are bound to document and stay active     *)
(* while the page is open; confirm() is answered within the handler.       *)
(***************************************************************************)
ExamRecordEvent(kind, position, x) ==
    [kind |-> kind, timeouts |-> x.timeouts, position |-> position]

\* the page has loaded: new ExamController() has run startExam()
ExamInit ==
    /\ variant = "A"
    /\ LinearIdle
    /\ UnitsIdle
    /\ examPage = "exam"
    /\ examEvent = NoExamEvent
    /\ \E settings \in SettingsSet :
         LET x == startExam(settings, generateQuestions(settings.questionCount),
                            [examSessions |-> <<>>, currentResult |-> <<>>])
         IN /\ exam = x.ctl
            /\ examStorage = x.store
            /\ examTimedOut = x.timedOut

ExamStep(kind, position, x) ==
    /\ Len(x.store.examSessions) <= MaxSaves
    /\ ExamInstall(x)
    /\ examEvent' = ExamRecordEvent(kind, position, x)
    /\ UNCHANGED examPage
    /\ UNCHANGED linearVars
    /\ UNCHANGED unitVars

\* click on an answer button (the completion modal covers the buttons)
ExamSelectClick ==
    /\ examPage = "exam"
    /\ ~exam.modalShown
    /\ \E position \in PressedPositions :
         ExamStep("select", position, examSelectAnswer(ExamCur, position))

\* keys 1..4
ExamSelectKey ==
    /\ examPage = "exam"
    /\ \E position \in PressedPositions :
         ExamStep("select", position, examSelectAnswer(ExamCur, position))

\* key ArrowRight / n, or click on #next-btn
ExamNext ==
    /\ examPage = "exam"
    /\ \E confirmed \in BOOLEAN : ExamStep("next", NoPosition, goNext(ExamCur, confirmed))

\* key ArrowLeft / p, or click on #prev-btn
ExamPrev ==
    /\ examPage = "exam"
    /\ ExamStep("prev", NoPosition, goPrev(ExamCur))

\* key e, or click on #end-exam-btn
ExamEnd ==
    /\ examPage = "exam"
    /\ \E confirmed \in BOOLEAN :
         ExamStep(IF confirmed THEN "end" ELSE "end-declined", NoPosition,
                  requestEndExam(ExamCur, confirmed))

\* the interval of the per-question Timer fires
QuestionTimerInterval ==
    /\ examPage = "exam"
    /\ exam.questionTimer.exists
    /\ exam.questionTimer.isRunning
    /\ LET t == [exam.questionTimer EXCEPT !.remaining = exam.questionTimer.remaining - 1]
           x == [ExamCur EXCEPT !.ctl.questionTimer = t]
       IN IF t.remaining <= 0
          THEN \E confirmed \in BOOLEAN :
                 ExamStep("question-tick", NoPosition,
                          goNext([x EXCEPT !.ctl.questionTimer = UtilTimerStop(t),
                                           !.timedOut = TRUE,
                                           !.timeouts = 1], confirmed))
          ELSE ExamStep("question-tick", NoPosition, x)

\* the interval of the total-time Timer fires
ExamTimerInterval ==
    /\ examPage = "exam"
    /\ exam.examTimer.exists
    /\ exam.examTimer.isRunning
    /\ LET t == [exam.examTimer EXCEPT !.remaining = exam.examTimer.remaining - 1]
           x == [ExamCur EXCEPT !.ctl.examTimer = t]
       IN IF t.remaining <= 0
          THEN ExamStep("exam-tick", NoPosition,
                        autoSubmitExam([x EXCEPT !.ctl.examTimer = UtilTimerStop(t),
                                                 !.timeouts = 1]))
          ELSE ExamStep("exam-tick", NoPosition, x)

\* click on #view-exam-results in the completion modal: the page is left
ViewResults ==
    /\ examPage = "exam"
    /\ exam.modalShown
    /\ examPage' = "left"
    /\ examEvent' = ExamRecordEvent("view-results", NoPosition, ExamCur)
    /\ UNCHANGED <<exam, examStorage, examTimedOut>>
    /\ UNCHANGED linearVars
    /\ UNCHANGED unitVars

ExamPageNext ==
    \/ ExamSelectClick
    \/ ExamSelectKey
    \/ ExamNext
    \/ ExamPrev
    \/ ExamEnd
    \/ QuestionTimerInterval
    \/ ExamTimerInterval
    \/ ViewResults

SpecExam == ExamInit /\ [][ExamPageNext]_vars

(***************************************************************************)
(* Properties that span the linear session and the exam.                   *)
(***************************************************************************)
ExamOpen == exam.present

\* End was called (click on #end-test) on a session that is already Completed
LinearEndOnCompleted == Completed /\ lastEvent'.kind = "end"

\* End was requested and confirmed on an exam that is already complete
ExamEndOnCompleted == ExamOpen /\ exam.isExamComplete /\ examEvent'.kind = "end"

\* C2: End on a session that is already Completed has no observable effect:
\* nothing more is persisted, the statistics are not updated again and the
\* stored Result is unchanged.
C2_EndIsIdempotent ==
    [][ /\ LinearEndOnCompleted =>
              /\ storage' = storage
              /\ currentTest' = currentTest
              /\ ui' = ui
        /\ ExamEndOnCompleted =>
              /\ examStorage' = examStorage
              /\ exam'.answers = exam.answers
      ]_vars

\* C6: every timeout that is delivered applies to the question that is
\* current at that moment, and none is delivered after Completed.
C6_NoStaleTimeout ==
    [][ /\ (lastEvent'.kind = "tick" /\ lastEvent'.timeUps > 0) =>
              /\ Running
              /\ TimerMode = "per-question"
                    => timer.startedFor = currentQuestionIndex
        /\ (ExamOpen /\ examEvent'.timeouts > 0) =>
              /\ ~exam.isExamComplete
              /\ examEvent'.kind = "question-tick"
                    => exam.questionTimer.forIndex = exam.currentIndex
      ]_vars

\* the total-time countdown of the linear session has run out
LinearTotalTimeExpired ==
    /\ currentTest.present
    /\ TimerMode = "total-time"
    /\ timer.elapsed >= timer.duration

\* the total-time countdown of the exam has run out
ExamTotalTimeExpired ==
    /\ ExamOpen
    /\ exam.examTimer.exists
    /\ exam.examTimer.remaining <= 0

\* C9: when the total-time timer expires while the session is Running, the
\* session is Completed at once, every question without a recorded answer
\* counts as incorrect (linear) or skipped (exam) in the Result, and from
\* then on no further question is shown and no further selection accepted.
C9_TotalTimeExpiryCompletes ==
    [][ /\ (Running /\ LinearTotalTimeExpired') =>
              /\ Completed'
              /\ ui'.currentScreen = "results-screen"
              /\ currentTest'.results[1].incorrectCount =
                    NumQuestions - Cardinality({k \in 1..Len(userAnswers) :
                                                   userAnswers[k].isCorrect})
        /\ (LinearTotalTimeExpired /\ lastEvent'.kind # "start") =>
              /\ currentQuestionIndex' = currentQuestionIndex
              /\ selectedAnswerIndex' = selectedAnswerIndex
              /\ currentTest'.questions = currentTest.questions
        /\ (ExamOpen /\ ~exam.isExamComplete /\ ExamTotalTimeExpired') =>
              /\ exam'.isExamComplete
              /\ examStorage'.currentResult[1].skippedCount =
                    Cardinality({i \in 1..Len(exam.questions) :
                                    exam.tempSelections[i] = NoPosition})
        /\ ExamTotalTimeExpired =>
              /\ exam'.currentIndex = exam.currentIndex
              /\ exam'.tempSelections = exam.tempSelections
      ]_vars

\* the selection held for the current question of the linear session
CurrentSelection ==
    IF variant = "A"
    THEN currentTest.questions[currentQuestionIndex + 1].selectedAnswer
    ELSE IF selectedAnswerIndex = NoIndex THEN NoAnswer
    ELSE currentTest.questions[currentQuestionIndex + 1].answers[selectedAnswerIndex + 1]

\* C10: Select only records a tentative choice: the answer log, the index
\* and the score stay as they are; a later Select on the same question
\* replaces the earlier one; a Select issued after the current question has
\* timed out is ignored.
C10_SelectIsTentative ==
    [][ /\ lastEvent'.kind = "select" =>
              /\ userAnswers' = userAnswers
              /\ currentQuestionIndex' = currentQuestionIndex
              /\ currentTest'.results = currentTest.results
              /\ storage' = storage
              /\ (Running /\ ~timedOutCurrent) =>
                    CurrentSelection' =
                       currentTest.questions[currentQuestionIndex + 1]
                                  .answers[lastEvent'.answer + 1]
              /\ timedOutCurrent => CurrentSelection' = CurrentSelection
        /\ (ExamOpen /\ examEvent'.kind = "select") =>
              /\ exam'.answers = exam.answers
              /\ exam'.currentIndex = exam.currentIndex
              /\ examStorage' = examStorage
              /\ ~examTimedOut =>
                    exam'.tempSelections =
                       [exam.tempSelections EXCEPT ![exam.currentIndex + 1] =
                                                      examEvent'.position]
              /\ examTimedOut => exam'.tempSelections = exam.tempSelections
      ]_vars

\* the log entry is the one for question q with the option at position
\* selected, or the skipped one if position is no selection
EntryMatches(entry, q, position) ==
    IF position = NoPosition
    THEN entry.skipped /\ entry.selectedAnswer = NoAnswer /\ ~entry.isCorrect
    ELSE \E k \in 1..Len(q.options) :
            /\ q.options[k].position = position
            /\ ~entry.skipped
            /\ entry.selectedAnswer = q.options[k].value
            /\ entry.isCorrect = (q.options[k].value = q.correctAnswer)

C16_Step ==
    /\ exam'.answers # exam.answers =>
          /\ Len(exam'.answers) = Len(exam.questions)
          /\ \A i \in 1..Len(exam.questions) :
                /\ exam'.answers[i].questionIndex = i - 1
                /\ EntryMatches(exam'.answers[i], exam.questions[i],
                                exam'.tempSelections[i])
    /\ examEvent'.kind = "select" =>
          exam'.tempSelections =
              [exam.tempSelections EXCEPT ![exam.currentIndex + 1] = examEvent'.position]
    /\ examEvent'.kind # "select" => exam'.tempSelections = exam.tempSelections

\* C16: whenever the exam is finalized, the permanent answer log gets exactly
\* one entry per question in question order, entry i carrying the value and
\* correctness of the option last selected for question i, or being marked
\* skipped (no value, not correct) if none was selected; a selection changes
\* the displayed question's selection only and navigation changes none.
C16_FinalizeReconcilesSelections == [][C16_Step]_vars

\* a finalized two-question exam: a wrong option selected on the first
\* question, the correct one on the second
C16_Witness ==
    /\ examPage = "exam"
    /\ exam.isExamComplete
    /\ Len(exam.answers) = 2
    /\ ~exam.answers[1].skipped /\ ~exam.answers[1].isCorrect
    /\ ~exam.answers[2].skipped /\ exam.answers[2].isCorrect

(***************************************************************************)
(* calculateResults on its own: a session of up to MaxTotal questions      *)
(* whose answer log is filled one entry per question, as both revisions of *)
(* TestManager fill it (a timeout entry or the value of a pressed button), *)
(* and whose Result is computed from the log as it stands.                 *)
(***************************************************************************)
MaxTotal == 8

InitResults ==
    /\ variant \in {"A", "B"}
    /\ \E count \in 1..MaxTotal :
         \E questions \in generateTestQuestions(count) :
            currentTest = [present |-> TRUE,
                           settings |-> [questionCount |-> count,
                                         timerMode |-> "off", timerDuration |-> 1],
                           questions |-> questions, results |-> <<>>]
    /\ currentQuestionIndex = 0
    /\ userAnswers = <<>>
    /\ isNavigating = FALSE
    /\ selectedAnswerIndex = NoIndex
    /\ timedOutCurrent = FALSE
    /\ timer = NoTimer
    /\ storage = EmptyStorage
    /\ storageOK = TRUE
    /\ ui = [InitUI EXCEPT !.currentScreen = "test-screen"]
    /\ navResetPending = 0
    /\ testsStarted = 1
    /\ lastSel = <<>>
    /\ lastEvent = NoEvent
    /\ ExamClosed
    /\ UnitsIdle

\* this.userAnswers.push({questionIndex, userAnswer, isCorrect}) for the
\* current question: a timeout entry or the value of a pressed button
LogEntry ==
    /\ currentQuestionIndex < Len(currentTest.questions)
    /\ LET question == currentTest.questions[currentQuestionIndex + 1]
       IN \E userAnswer \in {NoAnswer} \cup
                             {question.answers[i + 1] : i \in PressedIndices} :
            userAnswers' = Append(userAnswers,
                [questionIndex |-> currentQuestionIndex,
                 userAnswer |-> userAnswer,
                 isCorrect |-> userAnswer # NoAnswer
                                 /\ validateAnswer(question, userAnswer)])
    /\ currentQuestionIndex' = currentQuestionIndex + 1
    /\ UNCHANGED <<variant, currentTest, isNavigating, selectedAnswerIndex,
                   timedOutCurrent, timer, storage, storageOK, ui,
                   navResetPending, testsStarted, lastSel, lastEvent>>
    /\ UNCHANGED examVars
    /\ UNCHANGED unitVars

\* this.currentTest.results = this.calculateResults()
ComputeResults ==
    /\ currentTest' = [currentTest EXCEPT !.results = <<calculateResults(Cur)>>]
    /\ UNCHANGED <<variant, currentQuestionIndex, userAnswers, isNavigating,
                   selectedAnswerIndex, timedOutCurrent, timer, storage,
                   storageOK, ui, navResetPending, testsStarted, lastSel,
                   lastEvent>>
    /\ UNCHANGED examVars
    /\ UNCHANGED unitVars

NextResults ==
    \/ LogEntry
    \/ ComputeResults

SpecResults == InitResults /\ [][NextResults]_vars

\* C17: the Result computed from any answer log has
\* score% = round(correctCount / totalQuestions * 100), i.e. the integer r
\* with r - 1/2 <= 100 * correctCount / totalQuestions < r + 1/2,
\* incorrectCount = totalQuestions - correctCount and
\* 0 <= correctCount <= totalQuestions.
C17_ResultArithmetic ==
    currentTest.results # <<>> =>
        LET r == currentTest.results[1]
        IN /\ 2 * r.scorePercentage * r.totalQuestions
                   <= 200 * r.correctCount + r.totalQuestions
           /\ 200 * r.correctCount + r.totalQuestions
                   < 2 * (r.scorePercentage + 1) * r.totalQuestions
           /\ r.incorrectCount = r.totalQuestions - r.correctCount
           /\ 0 <= r.correctCount
           /\ r.correctCount <= r.totalQuestions

\* the Result of eight questions of which one is right: 12.5 rounds to 13
C17_Witness ==
    /\ currentTest.results # <<>>
    /\ currentTest.results[1].totalQuestions = 8
    /\ currentTest.results[1].correctCount = 1
    /\ currentTest.results[1].scorePercentage = 13

(***************************************************************************)
(* Part III - the settings dialogs.  Page "app" is the single-page App     *)
(* (src/js/app.js with Storage.js), page "index" the start page whose      *)
(* dialog leads to the training and exam pages (src/assets/js/main.js).    *)
(* Numbers are the ones of the code; NaN is NotANumber, and a comparison   *)
(* with NaN is false.                                                      *)
(***************************************************************************)
\* the options of <select id="question-count"> that are chosen here
SelectCounts == {5, 30}

\* what is typed into <input type="number" id="timer-duration">; the empty
\* field parses to NaN
TypedDurations == {NotANumber, 4, 5, 300, 301}

FormModes == {"off", "per-question"}

\* a >= b and a <= b in JavaScript
Geq(a, b) == a # NotANumber /\ b # NotANumber /\ a >= b

Leq(a, b) == a # NotANumber /\ b # NotANumber /\ a <= b

\* Storage.validateSettings: a value that is missing, of the wrong type or
\* out of range is replaced by its default
validateSettings(settings) ==
    [questionCount |-> IF Geq(settings.questionCount, 1)
                            /\ Leq(settings.questionCount, 50)
                       THEN settings.questionCount ELSE 10,
     timerMode |-> IF settings.timerMode \in TimerModes
                   THEN settings.timerMode ELSE "off",
     timerDuration |-> IF Geq(settings.timerDuration, 5)
                            /\ Leq(settings.timerDuration, 300)
                       THEN settings.timerDuration ELSE 30]

\* the settings object read from the form's fields
FormSettings ==
    [questionCount |-> form.questionCount, timerMode |-> form.timerMode,
     timerDuration |-> form.timerDuration]

\* App constructor and loadSettings with nothing stored / MainController
\* constructor and showSettingsModal
FormInit(page) ==
    [NoForm EXCEPT !.page = page,
                   !.timerMode = IF page = "index" THEN "per-question" ELSE "off"]

InitSettings ==
    /\ variant = "A"
    /\ LinearIdle
    /\ ExamClosed
    /\ \E page \in {"app", "index"} : form = FormInit(page)
    /\ tm = NoTm
    /\ clk = NoClk
    /\ gen = NoGen

\* the user picks an option of the question-count select
ChooseQuestionCount ==
    /\ form.page # "none"
    /\ form.started = <<>>
    /\ \E v \in SelectCounts : form' = [form EXCEPT !.questionCount = v]
    /\ UNCHANGED formRest

\* the user picks an option of the timer-mode select
ChooseTimerMode ==
    /\ form.page # "none"
    /\ form.started = <<>>
    /\ \E v \in FormModes : form' = [form EXCEPT !.timerMode = v]
    /\ UNCHANGED formRest

\* the user types into the timer-duration field
TypeTimerDuration ==
    /\ form.page # "none"
    /\ form.started = <<>>
    /\ \E v \in TypedDurations : form' = [form EXCEPT !.timerDuration = v]
    /\ UNCHANGED formRest

\* click on #save-settings: App.saveSettingsFromUI -> Storage.saveSettings
SaveSettingsClick ==
    /\ form.page = "app"
    /\ form.started = <<>>
    /\ form' = [form EXCEPT
                  !.currentSettings = FormSettings,
                  !.saved = <<validateSettings(FormSettings)>>,
                  !.lastSubmit = [kind |-> "save", settings |-> FormSettings,
                                  rejected |-> FALSE, wrote |-> TRUE,
                                  began |-> FALSE]]
    /\ UNCHANGED formRest

\* click on #practice-mode / #exam-mode: App.startTest(mode) hands
\* currentSettings to TestManager.startTest
AppStartClick ==
    /\ form.page = "app"
    /\ form.started = <<>>
    /\ form' = [form EXCEPT
                  !.started = <<form.currentSettings>>,
                  !.lastSubmit = [kind |-> "start",
                                  settings |-> form.currentSettings,
                                  rejected |-> FALSE, wrote |-> FALSE,
                                  began |-> TRUE]]
    /\ UNCHANGED formRest

\* click on #start-test: MainController.startTest
MainStartClick ==
    /\ form.page = "index"
    /\ form.started = <<>>
    /\ LET settings == FormSettings
           \* settings.questionCount < 1 || settings.questionCount > 100
           badCount == \/ (settings.questionCount # NotANumber
                              /\ settings.questionCount < 1)
                       \/ (settings.questionCount # NotANumber
                              /\ settings.questionCount > 100)
           \* settings.timerDuration < 5 || settings.timerDuration > 300
           badDuration == \/ (settings.timerDuration # NotANumber
                                 /\ settings.timerDuration < 5)
                          \/ (settings.timerDuration # NotANumber
                                 /\ settings.timerDuration > 300)
       IN IF badCount \/ badDuration
          THEN form' = [form EXCEPT
                          !.lastSubmit = [kind |-> "start", settings |-> settings,
                                          rejected |-> TRUE, wrote |-> FALSE,
                                          began |-> FALSE]]
          ELSE form' = [form EXCEPT
                          !.currentSettings = settings,
                          !.saved = <<settings>>,
                          !.started = <<settings>>,
                          !.lastSubmit = [kind |-> "start", settings |-> settings,
                                          rejected |-> FALSE, wrote |-> TRUE,
                                          began |-> TRUE]]
    /\ UNCHANGED formRest

NextSettings ==
    \/ ChooseQuestionCount
    \/ ChooseTimerMode
    \/ TypeTimerDuration
    \/ SaveSettingsClick
    \/ AppStartClick
    \/ MainStartClick

SpecSettings == InitSettings /\ [][NextSettings]_vars

\* the accepted bounds: 1..100 questions in the start page's dialog, 1..50
\* in Storage.validateSettings; 5..300 seconds in both
Malformed(settings) ==
    \/ settings.questionCount \notin 1..(IF form.page = "index" THEN 100 ELSE 50)
    \/ settings.timerDuration \notin 5..300

\* C13: a session is never started with a question count or a timer duration
\* outside the accepted bounds, and submitting such settings is rejected with a
\* validation error, writes nothing to storage and begins no session.
C13_MalformedSettingsRejected ==
    /\ form.started # <<>> => ~Malformed(form.started[1])
    /\ (form.lastSubmit.kind # "none" /\ Malformed(form.lastSubmit.settings)) =>
          /\ form.lastSubmit.rejected
          /\ ~form.lastSubmit.wrote
          /\ ~form.lastSubmit.began

(***************************************************************************)
(* Part IV - a Timer object on its own, driven through its public methods. *)
(* kind "module" is the Timer of src/js/modules/Timer.js, kind "util" the  *)
(* Timer of src/unnamed/part_005.  live is the set of intervals registered *)
(* with the browser (setInterval without clearInterval); an interval is    *)
(* named by the number of the start call that registered it.  History:     *)
(* starts counts the calls of start, replaced holds the intervals that     *)
(* were live when start was called on a running Timer, wasRunning and      *)
(* firedBy describe the last call.                                         *)
(***************************************************************************)
MaxStarts == 3

\* Timer.stop (module)
ModuleTimerStop(c) ==
    [c EXCEPT !.live = IF c.timerId # 0 THEN c.live \ {c.timerId} ELSE c.live,
              !.timerId = 0,
              !.isRunning = FALSE]

\* Timer.getRemainingTime (module)
ModuleRemaining(c) ==
    IF ~c.isRunning THEN c.duration
    ELSE IF c.duration - c.elapsed > 0 THEN c.duration - c.elapsed ELSE 0

\* Timer.tick (module), onTick and onComplete only being observed
ModuleTimerTick(c) ==
    IF ModuleRemaining(c) <= 0 THEN ModuleTimerStop(c) ELSE c

\* Timer.start (module)
ModuleTimerStart(c, duration, id) ==
    LET c1 == ModuleTimerStop(c)
        c2 == [c1 EXCEPT !.duration = duration, !.elapsed = 0,
                         !.isRunning = TRUE, !.timerId = id,
                         !.live = c1.live \cup {id}]
    IN ModuleTimerTick(c2)

\* Timer.stop (util)
UtilStop(c) ==
    IF ~c.isRunning THEN c
    ELSE [c EXCEPT !.isRunning = FALSE,
                   !.live = IF c.timerId # 0 THEN c.live \ {c.timerId} ELSE c.live,
                   !.timerId = 0]

\* Timer.start (util)
UtilStart(c, id) ==
    IF c.isRunning THEN c
    ELSE [c EXCEPT !.isRunning = TRUE, !.timerId = id,
                   !.live = c.live \cup {id}]

\* the callback that Timer.start (util) hands to setInterval
UtilTick(c) ==
    LET c1 == [c EXCEPT !.remaining = c.remaining - 1]
    IN IF c1.remaining <= 0 THEN UtilStop(c1) ELSE c1

\* the time a countdown started now would still have to run
TimeLeft(c) == IF c.kind = "module" THEN ModuleRemaining(c) ELSE c.remaining

\* new Timer() / new Timer(duration, onTick, onComplete)
InitTimer ==
    /\ variant = "A"
    /\ LinearIdle
    /\ ExamClosed
    /\ form = NoForm
    /\ clk = NoClk
    /\ gen = NoGen
    /\ \/ tm = [NoTm EXCEPT !.kind = "module"]
       \/ \E duration \in 1..MaxDuration :
            tm = [NoTm EXCEPT !.kind = "util", !.duration = duration,
                              !.remaining = duration]

\* timer.start(...) is called
TimerStartCall ==
    /\ tm.starts < MaxStarts
    /\ LET id == tm.starts + 1
           c == [tm EXCEPT !.starts = id,
                           !.lastCall = "start",
                           !.wasRunning = tm.isRunning,
                           !.replaced = IF tm.isRunning
                                        THEN tm.replaced \cup tm.live
                                        ELSE tm.replaced]
       IN IF tm.kind = "module"
          THEN \E duration \in 1..MaxDuration :
                  tm' = ModuleTimerStart(c, duration, id)
          ELSE tm' = UtilStart(c, id)
    /\ UNCHANGED tmRest

\* timer.stop() is called
TimerStopCall ==
    /\ LET c == [tm EXCEPT !.lastCall = "stop", !.wasRunning = tm.isRunning]
       IN tm' = IF tm.kind = "module" THEN ModuleTimerStop(c) ELSE UtilStop(c)
    /\ UNCHANGED tmRest

\* a second passes and the browser runs the callback of a live interval
TimerIntervalFires ==
    /\ \E id \in tm.live :
         LET c == [tm EXCEPT !.lastCall = "fire", !.wasRunning = tm.isRunning,
                             !.firedBy = id]
         IN tm' = IF tm.kind = "module"
                  THEN ModuleTimerTick([c EXCEPT !.elapsed = c.elapsed + 1])
                  ELSE UtilTick(c)
    /\ UNCHANGED tmRest

NextTimer ==
    \/ TimerStartCall
    \/ TimerStopCall
    \/ TimerIntervalFires

SpecTimer == InitTimer /\ [][NextTimer]_vars

\* C14: re-calling start on a running Timer cancels the running countdown and
\* replaces it with a new one: the Timer never has more than one live
\* interval, right after such a call the only live interval is the one this
\* call registered and the whole duration is left, and an interval that was
\* replaced never runs its callbacks again.
C14_RestartReplacesCountdown ==
    /\ Cardinality(tm.live) <= 1
    /\ (tm.lastCall = "start" /\ tm.wasRunning) =>
          /\ tm.isRunning
          /\ tm.live = {tm.starts}
          /\ TimeLeft(tm) = tm.duration
    /\ tm.lastCall = "fire" => tm.firedBy \notin tm.replaced

(***************************************************************************)
(* Part V - the time accounting of the free-navigation exam                *)
(* (src/assets/js/exam.js), with the clock.  now is Date.now() in units of *)
(* one tick; questionStartTime is set by every showQuestion and is truthy  *)
(* from startExam on.  History: shownFor[i] is the time during which       *)
(* question i has been the displayed question, moves counts the handled    *)
(* navigation events.                                                      *)
(***************************************************************************)
MaxTime == 3
MaxMoves == 4

\* ExamController.captureTimeSpent (the stop of the question timer aside)
captureTime(c) ==
    [c EXCEPT !.timeSpentByIndex[c.currentIndex + 1] =
                 c.timeSpentByIndex[c.currentIndex + 1]
                   + (c.now - c.questionStartTime)]

\* ExamController.showQuestion, for an index inside the questions
clockShowQuestion(c) == [c EXCEPT !.questionStartTime = c.now]

\* ExamController.requestFinalizeAndComplete
clockFinalize(c) == [captureTime(c) EXCEPT !.isExamComplete = TRUE]

\* ExamController.requestEndExam, with the answer given to confirm()
clockRequestEnd(c, confirmed) == IF confirmed THEN clockFinalize(c) ELSE c

\* ExamController.goPrev
clockGoPrev(c) ==
    LET c1 == captureTime(c)
    IN IF c1.currentIndex > 0
       THEN clockShowQuestion([c1 EXCEPT !.currentIndex = c1.currentIndex - 1])
       ELSE c1

\* ExamController.goNext
clockGoNext(c, confirmed) ==
    LET c1 == captureTime(c)
    IN IF c1.currentIndex < c1.count - 1
       THEN clockShowQuestion([c1 EXCEPT !.currentIndex = c1.currentIndex + 1])
       ELSE IF c1.currentIndex = c1.count - 1
       THEN clockRequestEnd(c1, confirmed)
       ELSE c1

\* ExamController.startExam at time 0
InitClock ==
    /\ variant = "A"
    /\ LinearIdle
    /\ ExamClosed
    /\ form = NoForm
    /\ tm = NoTm
    /\ gen = NoGen
    /\ \E count \in 1..MaxQuestions :
         clk = [on |-> TRUE, now |-> 0, startTime |-> 0, questionStartTime |-> 0,
                count |-> count, currentIndex |-> 0,
                timeSpentByIndex |-> [i \in 1..count |-> 0],
                isExamComplete |-> FALSE,
                shownFor |-> [i \in 1..count |-> 0], moves |-> 0]

\* time passes while a question is displayed
ClockTick ==
    /\ clk.on
    /\ ~clk.isExamComplete
    /\ clk.now < MaxTime
    /\ clk' = [clk EXCEPT !.now = clk.now + 1,
                          !.shownFor[clk.currentIndex + 1] =
                              clk.shownFor[clk.currentIndex + 1] + 1]
    /\ UNCHANGED clkRest

\* click on the previous button (enabled from the second question on), or
\* key ArrowLeft / p on any question
ClockPrev ==
    /\ clk.on
    /\ ~clk.isExamComplete
    /\ clk.moves < MaxMoves
    /\ clk' = [clockGoPrev(clk) EXCEPT !.moves = clk.moves + 1]
    /\ UNCHANGED clkRest

\* click on the next / finish button, or key ArrowRight / n
ClockNext ==
    /\ clk.on
    /\ ~clk.isExamComplete
    /\ clk.moves < MaxMoves
    /\ \E confirmed \in BOOLEAN :
         clk' = [clockGoNext(clk, confirmed) EXCEPT !.moves = clk.moves + 1]
    /\ UNCHANGED clkRest

\* click on the end button or key e
ClockEnd ==
    /\ clk.on
    /\ ~clk.isExamComplete
    /\ clk.moves < MaxMoves
    /\ \E confirmed \in BOOLEAN :
         clk' = [clockRequestEnd(clk, confirmed) EXCEPT !.moves = clk.moves + 1]
    /\ UNCHANGED clkRest

\* the total-time countdown runs out: autoSubmitExam
ClockAutoSubmit ==
    /\ clk.on
    /\ ~clk.isExamComplete
    /\ clk.now > 0
    /\ clk' = clockFinalize(clk)
    /\ UNCHANGED clkRest

NextClock ==
    \/ ClockTick
    \/ ClockPrev
    \/ ClockNext
    \/ ClockEnd
    \/ ClockAutoSubmit

SpecClock == InitClock /\ [][NextClock]_vars

RECURSIVE SumSeq(_)
SumSeq(q) == IF q = <<>> THEN 0 ELSE Head(q) + SumSeq(Tail(q))

\* C15: in the free-navigation exam the time recorded for a question equals
\* the time during which it was the displayed question, over all visits and
\* whatever the direction of navigation (for the displayed question once
\* the exam is finalized), and the recorded times never add up to more than
\* the time elapsed since Start.
C15_TimePerQuestionIsTimeDisplayed ==
    clk.on =>
        /\ \A i \in 1..clk.count :
              (clk.isExamComplete \/ i # clk.currentIndex + 1) =>
                  clk.timeSpentByIndex[i] = clk.shownFor[i]
        /\ SumSeq(clk.timeSpentByIndex) <= clk.now - clk.startTime

(***************************************************************************)
(* Part VI - a QuestionGenerator on its own (src/unnamed/part_006), in its *)
(* two revisions: "rules" is the class of lines 9-570 (factors by          *)
(* multiplication rule or by range, isDuplicate on unordered pairs),       *)
(* "ranges" the class of lines 594-1045 (factors by range, isDuplicate on  *)
(* ordered pairs).  Math.random is a nondeterministic choice.              *)
(*                                                                         *)
(* First the history: questions are their factors and correct answer, the  *)
(* factors drawn by randomInt from factorARange = factorBRange = [0, 1].   *)
(* The draws of one generateQuestion call are given as a run of d draws of *)
(* one question followed by draws of another.                              *)
(***************************************************************************)
maxAttempts == 50

MaxCalls == 3
MaxDupDraws == 51

\* createQuestion, the options aside: what randomInt may draw
FactorDraws ==
    { [factorA |-> a, factorB |-> b, correctAnswer |-> a * b] :
        a \in 0..1, b \in 0..1 }

Min(a, b) == IF a <= b THEN a ELSE b

\* QuestionGenerator.isDuplicate
isDuplicate(g, question) ==
    \E k \in 1..Len(g.questionHistory) :
        LET q == g.questionHistory[k]
        IN IF g.revision = "rules"
           THEN /\ Min(question.factorA, question.factorB) = Min(q.factorA, q.factorB)
                /\ Max(question.factorA, question.factorB) = Max(q.factorA, q.factorB)
           ELSE /\ q.factorA = question.factorA
                /\ q.factorB = question.factorB

\* the do-while loop of generateQuestion with attempts < maxAttempts
\* replaced by attempts <= maxAttempts
RECURSIVE generateLoop_late(_, _, _, _, _)
generateLoop_late(g, d, first, then, attempts) ==
    LET question == IF d > 0 THEN first ELSE then
        n == attempts + 1
    IN IF g.avoidDuplicates /\ isDuplicate(g, question) /\ n <= maxAttempts
       THEN generateLoop_late(g, IF d > 0 THEN d - 1 ELSE 0, first, then, n)
       ELSE [question |-> question, attempts |-> n]

\* the do-while loop of generateQuestion: createQuestion draws first on each
\* of the next d attempts and then from there on
RECURSIVE generateLoop(_, _, _, _, _)
generateLoop(g, d, first, then, attempts) ==
    LET question == IF d > 0 THEN first ELSE then
        n == attempts + 1
    IN IF g.avoidDuplicates /\ isDuplicate(g, question) /\ n < maxAttempts
       THEN generateLoop(g, IF d > 0 THEN d - 1 ELSE 0, first, then, n)
       ELSE [question |-> question, attempts |-> n]

\* QuestionGenerator.generateQuestion
generateQuestion(g, d, first, then) ==
    LET r == generateLoop(g, d, first, then, 0)
    IN [g EXCEPT !.questionHistory = Append(g.questionHistory, r.question),
                 !.returned = r.question,
                 !.attempts = r.attempts,
                 !.calls = g.calls + 1]

\* new QuestionGenerator(), used with one value of avoidDuplicates
InitGenerator ==
    /\ variant = "A"
    /\ LinearIdle
    /\ ExamClosed
    /\ form = NoForm
    /\ tm = NoTm
    /\ clk = NoClk
    /\ \E revision \in {"rules", "ranges"}, avoidDuplicates \in BOOLEAN :
         gen = [on |-> TRUE, revision |-> revision,
                avoidDuplicates |-> avoidDuplicates,
                questionHistory |-> <<>>,
                returned |-> [factorA |-> 0, factorB |-> 0, correctAnswer |-> 0],
                attempts |-> 0, calls |-> 0]

\* the lengths of the run of first draws
DrawRuns == {0, 1, maxAttempts - 1, MaxDupDraws}

\* generateQuestion(options) is called (generateQuestions calls it count times)
GenerateQuestionCall ==
    /\ gen.on
    /\ gen.calls < MaxCalls
    /\ \E d \in DrawRuns, first \in FactorDraws, then \in FactorDraws :
         gen' = generateQuestion(gen, d, first, then)
    /\ UNCHANGED genRest

\* QuestionGenerator.clearHistory
ClearHistoryCall ==
    /\ gen.on
    /\ gen.questionHistory # <<>>
    /\ gen.calls < MaxCalls
    /\ gen' = [gen EXCEPT !.questionHistory = <<>>]
    /\ UNCHANGED genRest

NextGenerator ==
    \/ GenerateQuestionCall
    \/ ClearHistoryCall

SpecGenerator == InitGenerator /\ [][NextGenerator]_vars

\* the questions have the same unordered pair of factors
SamePair(p, q) ==
    /\ Min(p.factorA, p.factorB) = Min(q.factorA, q.factorB)
    /\ Max(p.factorA, p.factorB) = Max(q.factorA, q.factorB)

\* C19: with avoidDuplicates enabled, the questions of a generator's history
\* have pairwise distinct unordered factor pairs: no returned question has
\* the pair of a question already in the history.
C19_NoDuplicatePairs ==
    (gen.on /\ gen.avoidDuplicates) =>
        \A i, j \in 1..Len(gen.questionHistory) :
            i # j => ~SamePair(gen.questionHistory[i], gen.questionHistory[j])

\* C20: every call of generateQuestion ends after at most maxAttempts (50)
\* attempts, returns a question, the last one created, even if it is a
\* duplicate, and appends exactly that one entry to the history.
C20_Step ==
    gen'.calls = gen.calls + 1 =>
        /\ gen'.attempts \in 1..maxAttempts
        /\ gen'.returned \in FactorDraws
        /\ gen'.questionHistory = Append(gen.questionHistory, gen'.returned)

C20_BoundedAttemptsOneAppend == [][C20_Step]_vars

\* a call that used up all 50 attempts and returned a duplicate
C20_Witness ==
    /\ gen.on
    /\ gen.avoidDuplicates
    /\ gen.attempts = maxAttempts
    /\ Len(gen.questionHistory) >= 2
    /\ \E i \in 1..(Len(gen.questionHistory) - 1) :
          SamePair(gen.questionHistory[i], gen.returned)
    /\ gen.questionHistory[Len(gen.questionHistory)] = gen.returned

(***************************************************************************)
(* Part VII - the answer options of a question (src/unnamed/part_006,      *)
(* createQuestion and below), for both revisions of the class.  The        *)
(* difficulty-scaled random range of generateRandomDistractor is           *)
(* max(10, correctAnswer * 0.5) and the like, so option values may have    *)
(* one decimal digit: every option value is held in tenths.  Each          *)
(* strategy is the set of values Math.random lets it return; the question  *)
(* returned by generateQuestion is the one its last createQuestion call    *)
(* made, whatever the history.                                             *)
(***************************************************************************)
MaxFactor == 4

\* a JavaScript number n as tenths
Tenth(n) == 10 * n

\* Number.prototype.toString of a non-negative integer, split into digits
RECURSIVE toDigits(_)
toDigits(n) == IF n < 10 THEN <<n>> ELSE Append(toDigits(n \div 10), n % 10)

\* parseInt of the joined digits
RECURSIVE parseDigits(_)
parseDigits(digits) ==
    IF digits = <<>>
    THEN 0
    ELSE 10 * parseDigits(SubSeq(digits, 1, Len(digits) - 1)) + digits[Len(digits)]

\* variations[randomInt(0, variations.length - 1)]: undefined, which no
\* comparison accepts, when the list is empty
PickOf(variations) == IF variations = {} THEN {NotANumber} ELSE variations

generateOffByOneDistractor(c) == {Tenth(c + 1), Tenth(c - 1)}

generateSwapDigitsDistractor(c) ==
    LET digits == toDigits(c)
    IN IF Len(digits) < 2
       THEN {Tenth(c + k) : k \in 1..9}
       ELSE {Tenth(parseDigits([k \in 1..Len(digits) |->
                                  IF k = i THEN digits[i + 1]
                                  ELSE IF k = i + 1 THEN digits[i]
                                  ELSE digits[k]])) : i \in 1..(Len(digits) - 1)}

generateFactorVariationDistractor(a, b) ==
    PickOf({Tenth(v) : v \in {w \in {(a + 1) * b, (a - 1) * b,
                                     a * (b + 1), a * (b - 1)} : w >= 0}})

generateSimpleMathDistractor(c) ==
    PickOf({Tenth(v) : v \in {w \in {c + 10, c - 10, c + 5, c - 5} : w >= 0}})

\* Math.floor(c * 1.1) and Math.floor(c * 0.9) of a non-negative integer
generateComplexMathDistractor(c, a, b) ==
    PickOf({Tenth(v) : v \in {w \in {c + a, c - a, c + b, c - b,
                                     (11 * c) \div 10, (9 * c) \div 10} : w >= 0}})

generateRandomCloseDistractor(c) ==
    LET range == Max(1, c \div 5)
    IN {Tenth(Max(0, c + offset)) : offset \in (0 - range)..range}

\* the range of generateRandomDistractor, in tenths; the second revision
\* has no entry for extreme and falls back to normal
randomRange(g, c, difficulty) ==
    CASE difficulty = "easy" -> Max(100, 5 * c)
      [] difficulty = "hard" -> Max(500, 15 * c)
      [] difficulty = "extreme" /\ g.revision = "rules" -> Max(990, 20 * c)
      [] OTHER -> Max(200, 8 * c)

\* the values k of Math.floor(Math.random() * (max - min + 1)) that are
\* tried with min = -range, max = range: the three lowest, the three
\* highest and those around the middle
OffsetDraws(range) ==
    LET n == (2 * range + 19) \div 10
        mid == n \div 2
    IN {k \in 0..(n - 1) : k <= 2 \/ k >= n - 3 \/ (k >= mid - 3 /\ k <= mid + 3)}

generateRandomDistractor(g, c, difficulty) ==
    LET range == randomRange(g, c, difficulty)
    IN {Max(0, Tenth(c) + Tenth(k) - range) : k \in OffsetDraws(range)}

\* getDistractorStrategies
getDistractorStrategies(g, difficulty) ==
    CASE difficulty = "easy" -> <<"off_by_one", "swap_digits", "simple_math">>
      [] difficulty = "hard" ->
            <<"off_by_one", "swap_digits", "factor_variation", "complex_math",
              "random_close">>
      [] difficulty = "extreme" /\ g.revision = "rules" ->
            <<"swap_digits", "factor_variation", "complex_math", "random_close">>
      [] OTHER -> <<"off_by_one", "swap_digits", "factor_variation", "simple_math">>

\* applyDistractorStrategy
applyDistractorStrategy(strategy, c, a, b) ==
    CASE strategy = "off_by_one" -> generateOffByOneDistractor(c)
      [] strategy = "swap_digits" -> generateSwapDigitsDistractor(c)
      [] strategy = "factor_variation" -> generateFactorVariationDistractor(a, b)
      [] strategy = "simple_math" -> generateSimpleMathDistractor(c)
      [] strategy = "complex_math" -> generateComplexMathDistractor(c, a, b)
      [] OTHER -> generateRandomCloseDistractor(c)

Values(s) == {s[i] : i \in 1..Len(s)}

\* the test of the strategy loop without !distractors.includes(distractor)
keepsStrategyValue_noincludes(distractor, c, distractors) ==
    /\ distractor # NotANumber
    /\ distractor # Tenth(c)
    /\ distractor >= 0

\* the test of the strategy loop: Number.isFinite(distractor) (first
\* revision; every number here is finite) && distractor !== correctAnswer
\* && !distractors.includes(distractor) && distractor >= 0
keepsStrategyValue(distractor, c, distractors) ==
    /\ distractor # NotANumber
    /\ distractor # Tenth(c)
    /\ distractor \notin Values(distractors)
    /\ distractor >= 0

\* strategies.forEach(...) from the k-th strategy on: every list of
\* distractors it can leave
RECURSIVE strategyLoop(_, _, _, _, _, _)
strategyLoop(strategies, k, c, a, b, distractors) ==
    IF k > Len(strategies)
    THEN {distractors}
    ELSE UNION { strategyLoop(strategies, k + 1, c, a, b,
                              IF keepsStrategyValue(d, c, distractors)
                              THEN Append(distractors, d)
                              ELSE distractors) :
                 d \in applyDistractorStrategy(strategies[k], c, a, b) }

\* while (distractors.length < 3): every list the loop can end with
RECURSIVE fillLoop(_, _, _, _)
fillLoop(g, c, difficulty, distractors) ==
    IF Len(distractors) >= 3
    THEN {distractors}
    ELSE UNION { fillLoop(g, c, difficulty, Append(distractors, d)) :
                 d \in {v \in generateRandomDistractor(g, c, difficulty) :
                          v \notin Values(distractors) /\ v # Tenth(c)} }

\* generateDistractors
generateDistractors(g, c, a, b, difficulty) ==
    { SubSeq(filled, 1, 3) :
        filled \in UNION { fillLoop(g, c, difficulty, ds) :
                           ds \in strategyLoop(getDistractorStrategies(g, difficulty),
                                               1, c, a, b, <<>>) } }

\* shuffleArray: Fisher-Yates can produce every order
Orders(n) == {p \in [1..n -> 1..n] : \A i, j \in 1..n : p[i] = p[j] => i = j}

\* generateAnswerOptions
generateAnswerOptions(g, c, a, b, difficulty) ==
    { [index \in 1..Len(options) |->
          [value |-> options[p[index]], position |-> index,
           isCorrect |-> options[p[index]] = Tenth(c)]] :
        options \in {<<Tenth(c)>> \o ds : ds \in generateDistractors(g, c, a, b, difficulty)},
        p \in Orders(4) }

\* createQuestion once the factors are drawn
createQuestion(g, a, b, difficulty) ==
    { [factorA |-> a, factorB |-> b, correctAnswer |-> a * b,
       options |-> o, difficulty |-> difficulty] :
        o \in generateAnswerOptions(g, a * b, a, b, difficulty) }

\* the factors randomInt can draw from ranges within 0..MaxFactor, and
\* some of those the multiplication rules give (rule 1: n x 11, rule 4)
OptionFactors ==
    ((0..MaxFactor) \X (0..MaxFactor))
        \cup {<<10, 11>>, <<20, 11>>, <<10, 10>>, <<15, 15>>}

Difficulties == {"easy", "normal", "medium", "hard", "extreme"}

\* a generator asked for one question: the factors createQuestion draws
\* and the difficulty of the request
InitOptions ==
    /\ variant = "A"
    /\ LinearIdle
    /\ ExamClosed
    /\ form = NoForm
    /\ tm = NoTm
    /\ clk = NoClk
    /\ \E revision \in {"rules", "ranges"}, f \in OptionFactors,
          difficulty \in Difficulties :
         gen = [on |-> TRUE, revision |-> revision, calls |-> 0,
                question |-> [factorA |-> f[1], factorB |-> f[2],
                              correctAnswer |-> f[1] * f[2],
                              options |-> <<>>, difficulty |-> difficulty]]

\* generateQuestion(options) returns the question of its last createQuestion
GenerateOptionsCall ==
    /\ gen.on
    /\ gen.calls = 0
    /\ \E question \in createQuestion(gen, gen.question.factorA,
                                       gen.question.factorB,
                                       gen.question.difficulty) :
         gen' = [gen EXCEPT !.question = question, !.calls = 1]
    /\ UNCHANGED genRest

NextOptions == GenerateOptionsCall

SpecOptions == InitOptions /\ [][NextOptions]_vars

MaxAnswer == 6
MaxRejects == 2

\* the values k of Math.floor(Math.random() * n) that are tried: the three
\* lowest, the three highest and those around the middle
Draws(n) ==
    {k \in 0..(n - 1) : k <= 2 \/ k >= n - 3
                          \/ (k >= n \div 2 - 3 /\ k <= n \div 2 + 3)}

\* QuestionGenerator.generateRandomReasonable (part_002)
generateRandomReasonable(c) ==
    LET range == Max(100, 5 * c)
        min == Max(0, Tenth(c) - range)
        max == Tenth(c) + range
    IN {min + Tenth(k) : k \in Draws((max - min + 19) \div 10)}

\* QuestionGenerator.generateNearMiss (part_002)
generateNearMiss(c) == {Tenth(c + 1), Tenth(c + 2), Tenth(c - 1), Tenth(c - 2)}

\* QuestionGenerator.generateSwappedDigits (part_002)
generateSwappedDigits(c) ==
    IF Len(toDigits(c)) < 2
    THEN generateRandomReasonable(c)
    ELSE generateSwapDigitsDistractor(c)

\* distractors.add(distractor) under distractor !== correctAnswer &&
\* distractor >= 0, the Set kept in insertion order
addDistractor(distractors, d, c) ==
    IF d # Tenth(c) /\ d >= 0 /\ d \notin Values(distractors)
    THEN Append(distractors, d)
    ELSE distractors

\* for (const strategy of this.distractorStrategies) of part_002: every
\* Set it can leave
moduleStrategyLoop(c) ==
    { addDistractor(addDistractor(addDistractor(<<>>, d1, c), d2, c), d3, c) :
        d1 \in generateNearMiss(c), d2 \in generateSwappedDigits(c),
        d3 \in generateRandomReasonable(c) }

\* what the strategy loop of generateDistractors can leave
afterStrategies(g) ==
    IF g.revision = "modules"
    THEN moduleStrategyLoop(g.correctAnswer)
    ELSE strategyLoop(getDistractorStrategies(g, g.difficulty), 1,
                      g.correctAnswer, g.factorA, g.factorB, <<>>)

\* what the fill loop draws
fillDraws(g) ==
    IF g.revision = "modules"
    THEN generateRandomReasonable(g.correctAnswer)
    ELSE generateRandomDistractor(g, g.correctAnswer, g.difficulty)

\* the fill loop without the comparison with correctAnswer
keepsFillValue_anyValue(g, d, c, distractors) ==
    /\ d \notin Values(distractors)
    /\ g.revision = "modules" => d >= 0

\* the fill loop lengthens the list by d: !distractors.includes(d) &&
\* d !== correctAnswer (part_006); d !== correctAnswer && d >= 0 and d new
\* to the Set (part_002)
keepsFillValue(g, d, c, distractors) ==
    /\ d \notin Values(distractors)
    /\ d # Tenth(c)
    /\ g.revision = "modules" => d >= 0

\* the arguments of one call of generateDistractors
DistractorCalls ==
    LET answers == (0..MaxAnswer) \cup {12, 25, 110, 225}
    IN { [on |-> TRUE, revision |-> revision, correctAnswer |-> c,
          factorA |-> f[1], factorB |-> f[2], difficulty |-> difficulty,
          phase |-> "strategies", distractors |-> <<>>, result |-> <<>>,
          rejected |-> 0] :
           revision \in {"rules", "ranges"}, c \in answers,
           f \in {<<0, 0>>, <<3, 4>>, <<15, 15>>, <<0 - 3, 4>>},
           difficulty \in Difficulties }
       \cup
       { [on |-> TRUE, revision |-> "modules", correctAnswer |-> c,
          factorA |-> 0, factorB |-> 0, difficulty |-> "normal",
          phase |-> "strategies", distractors |-> <<>>, result |-> <<>>,
          rejected |-> 0] : c \in answers }

InitDistractors ==
    /\ variant = "A"
    /\ LinearIdle
    /\ ExamClosed
    /\ form = NoForm
    /\ tm = NoTm
    /\ clk = NoClk
    /\ gen \in DistractorCalls

\* the strategy loop runs
StrategiesRun ==
    /\ gen.on
    /\ gen.phase = "strategies"
    /\ \E distractors \in afterStrategies(gen) :
         gen' = [gen EXCEPT !.phase = "fill", !.distractors = distractors]
    /\ UNCHANGED genRest

\* an iteration of the fill loop that lengthens the list
FillKeeps ==
    /\ gen.on
    /\ gen.phase = "fill"
    /\ Len(gen.distractors) < 3
    /\ \E d \in fillDraws(gen) :
         /\ keepsFillValue(gen, d, gen.correctAnswer, gen.distractors)
         /\ gen' = [gen EXCEPT !.distractors = Append(gen.distractors, d)]
    /\ UNCHANGED genRest

\* an iteration of the fill loop that draws a value it does not keep
FillRejects ==
    /\ gen.on
    /\ gen.phase = "fill"
    /\ Len(gen.distractors) < 3
    /\ gen.rejected < MaxRejects
    /\ \E d \in fillDraws(gen) :
         /\ ~keepsFillValue(gen, d, gen.correctAnswer, gen.distractors)
         /\ gen' = [gen EXCEPT !.rejected = gen.rejected + 1]
    /\ UNCHANGED genRest

\* return distractors.slice(0, 3)
DistractorsReturn ==
    /\ gen.on
    /\ gen.phase = "fill"
    /\ Len(gen.distractors) >= 3
    /\ gen' = [gen EXCEPT !.phase = "returned",
                          !.result = SubSeq(gen.distractors, 1, 3)]
    /\ UNCHANGED genRest

NextDistractors ==
    \/ StrategiesRun
    \/ FillKeeps
    \/ FillRejects
    \/ DistractorsReturn

SpecDistractors == InitDistractors /\ [][NextDistractors]_vars

DrawSpread == 1

\* randomInt(min, max) of utils.js for integers min <= max: the values
\* tried are the lowest, the highest and the middle ones
randomInt(min, max) ==
    {n \in min..max : \/ n <= min + DrawSpread
                      \/ n >= max - DrawSpread
                      \/ n = (min + max) \div 2}

\* String.prototype.toLowerCase on the difficulty names used
toLowerCase(s) ==
    CASE s = "Extreme" -> "extreme"
      [] s = "Easy" -> "easy"
      [] OTHER -> s

\* getRangeForDifficulty; the empty string stands for a missing difficulty
getRangeForDifficulty(difficulty) ==
    LET key == toLowerCase(IF difficulty = "" THEN "medium" ELSE difficulty)
    IN CASE key = "easy" -> [min |-> 10, max |-> 20]
         [] key = "hard" -> [min |-> 10, max |-> 100]
         [] key = "extreme" -> [min |-> 50, max |-> 99]
         [] OTHER -> [min |-> 10, max |-> 50]

\* the rule of generateFactorsByRules with extreme treated as any other
\* difficulty
selectedRule_unforced(ruleType, difficulty) ==
    IF ruleType \in {1, 2, 4} THEN {ruleType} ELSE {1, 2, 4}

\* selectedRule of generateFactorsByRules; ruleType 0 stands for null
selectedRule(ruleType, difficulty) ==
    IF difficulty # "" /\ toLowerCase(difficulty) = "extreme"
    THEN {4}
    ELSE IF ruleType \in {1, 2, 4} THEN {ruleType} ELSE {1, 2, 4}

hasDigit1InTensOrOnes(n) ==
    LET abs == IF n < 0 THEN 0 - n ELSE n
    IN abs % 10 = 1 \/ (abs \div 10) % 10 = 1

\* randomNumberWithDigit1InTensOrOnes
randomNumberWithDigit1InTensOrOnes(range) ==
    LET candidates == {n \in range.min..range.max :
                          n % 10 = 1 \/ (n \div 10) % 10 = 1}
    IN IF candidates = {} THEN randomInt(range.min, range.max) ELSE candidates

generateRule1(range) == {<<a, 11>> : a \in randomInt(range.min, range.max)}

\* generateRule2: the loop replaces one factor while neither has a digit 1;
\* it ends after the first replacement that has one, or after 1000 rounds
generateRule2(range) ==
    LET draws == randomInt(range.min, range.max)
        with1 == randomNumberWithDigit1InTensOrOnes(range)
    IN {f \in draws \X draws :
            hasDigit1InTensOrOnes(f[1]) \/ hasDigit1InTensOrOnes(f[2])}
       \cup {<<c, f[2]>> : c \in with1,
                f \in {p \in draws \X draws : ~hasDigit1InTensOrOnes(p[1])
                                              /\ ~hasDigit1InTensOrOnes(p[2])}}
       \cup {<<f[1], c>> : c \in with1,
                f \in {p \in draws \X draws : ~hasDigit1InTensOrOnes(p[1])
                                              /\ ~hasDigit1InTensOrOnes(p[2])}}

generateRule4(range) ==
    randomInt(range.min, range.max) \X randomInt(range.min, range.max)

\* generateFactorsByRules: the rule used and the factors
generateFactorsByRules(ruleType, difficulty) ==
    LET range == getRangeForDifficulty(difficulty)
    IN UNION { { [rule |-> rule, factorA |-> f[1], factorB |-> f[2]] :
                   f \in CASE rule = 1 -> generateRule1(range)
                           [] rule = 2 -> generateRule2(range)
                           [] OTHER -> generateRule4(range) } :
               rule \in selectedRule(ruleType, difficulty) }

\* the factors createQuestion draws; rule 0: drawn from the ranges
createFactors(g) ==
    IF g.revision = "rules" /\ g.options.useMultiplicationRules
    THEN generateFactorsByRules(g.options.ruleType, g.options.difficulty)
    ELSE { [rule |-> 0, factorA |-> a, factorB |-> b] :
             a \in randomInt(g.options.factorARange[1], g.options.factorARange[2]),
             b \in randomInt(g.options.factorBRange[1], g.options.factorBRange[2]) }

\* the options of generateQuestion with their defaults filled in; explicit
\* tells whether the caller gave factorARange and factorBRange
FactorOptions ==
    { [factorARange |-> r[1], factorBRange |-> r[2], explicit |-> r[3],
       difficulty |-> difficulty, ruleType |-> ruleType,
       useMultiplicationRules |-> useMultiplicationRules] :
        r \in {<<<<0, 10>>, <<0, 99>>, FALSE>>, <<<<5, 10>>, <<20, 30>>, TRUE>>,
               <<<<0, 1>>, <<0, 1>>, TRUE>>},
        difficulty \in {"", "easy", "normal", "medium", "hard", "extreme", "Extreme"},
        ruleType \in {0, 1, 2, 3, 4},
        useMultiplicationRules \in BOOLEAN }

InitFactors ==
    /\ variant = "A"
    /\ LinearIdle
    /\ ExamClosed
    /\ form = NoForm
    /\ tm = NoTm
    /\ clk = NoClk
    /\ \E revision \in {"rules", "ranges"}, options \in FactorOptions :
         gen = [on |-> TRUE, revision |-> revision, options |-> options,
                calls |-> 0, factors |-> [rule |-> 0, factorA |-> 0, factorB |-> 0]]

\* generateQuestion(options): the factors of the returned question are
\* those of its last createQuestion
GenerateFactorsCall ==
    /\ gen.on
    /\ \E factors \in createFactors(gen) :
         gen' = [gen EXCEPT !.factors = factors, !.calls = 1]
    /\ UNCHANGED genRest

NextFactors == GenerateFactorsCall

SpecFactors == InitFactors /\ [][NextFactors]_vars

\* C22: when generateQuestion is called with explicit factorARange and
\* factorBRange, the returned question's factorA lies within factorARange
\* and its factorB within factorBRange.
C22_FactorsWithinGivenRanges ==
    (gen.on /\ gen.calls > 0 /\ gen.options.explicit) =>
        /\ gen.factors.factorA >= gen.options.factorARange[1]
        /\ gen.factors.factorA <= gen.options.factorARange[2]
        /\ gen.factors.factorB >= gen.options.factorBRange[1]
        /\ gen.factors.factorB <= gen.options.factorBRange[2]

\* the range documented for a difficulty level
DocumentedRange(level) ==
    CASE level = "easy" -> 10..20
      [] level = "medium" -> 10..50
      [] level = "hard" -> 10..100
      [] level = "extreme" -> 50..99

\* C23: for every difficulty level and every multiplication rule chosen,
\* both factors of a generated question lie within the documented range of
\* the difficulty (easy 10..20, medium 10..50, hard 10..100, extreme
\* 50..99), and extreme difficulty always uses the fully random rule 4.
C23_FactorsWithinDifficultyRange ==
    (gen.on /\ gen.calls > 0 /\ gen.factors.rule # 0) =>
        LET level == toLowerCase(gen.options.difficulty)
        IN /\ level \in {"easy", "medium", "hard", "extreme"} =>
                 /\ gen.factors.factorA \in DocumentedRange(level)
                 /\ gen.factors.factorB \in DocumentedRange(level)
           /\ level = "extreme" => gen.factors.rule = 4

\* a question of difficulty "Extreme" asked for with rule 1: rule 4 was
\* used, and the factors are the ends of 50..99
C23_Witness ==
    /\ gen.on
    /\ gen.calls > 0
    /\ gen.options.difficulty = "Extreme"
    /\ gen.options.ruleType = 1
    /\ gen.factors.rule = 4
    /\ gen.factors.factorA = 99
    /\ gen.factors.factorB = 50

(***************************************************************************)
(* Part X - exportQuestions and importQuestions (src/unnamed/part_006).    *)
(* JSON text is a sequence of tokens: punctuation, member names, and the   *)
(* characters of the numbers.  JSON.stringify writes a number as its       *)
(* decimal digits and NaN as null; JSON.parse reads the digits back.  A    *)
(* question is exported with its factors and its correct answer; its       *)
(* other members are written and read the same way.                        *)
(***************************************************************************)
MaxExported == 3

DigitChars == <<"0", "1", "2", "3", "4", "5", "6", "7", "8", "9">>

\* JSON.stringify of a number, with 0 written as null
stringifyNumber_falsyZero(n) ==
    IF n = NotANumber \/ n = 0
    THEN <<"null">>
    ELSE (IF n < 0 THEN <<"-">> ELSE <<>>)
         \o [i \in 1..Len(toDigits(IF n < 0 THEN 0 - n ELSE n)) |->
                DigitChars[toDigits(IF n < 0 THEN 0 - n ELSE n)[i] + 1]]

\* JSON.stringify of a number
stringifyNumber(n) ==
    IF n = NotANumber
    THEN <<"null">>
    ELSE (IF n < 0 THEN <<"-">> ELSE <<>>)
         \o [i \in 1..Len(toDigits(IF n < 0 THEN 0 - n ELSE n)) |->
                DigitChars[toDigits(IF n < 0 THEN 0 - n ELSE n)[i] + 1]]

\* JSON.stringify of a question
stringifyQuestion(q) ==
    <<"{", "factorA", ":">> \o stringifyNumber(q.factorA)
    \o <<",", "factorB", ":">> \o stringifyNumber(q.factorB)
    \o <<",", "correctAnswer", ":">> \o stringifyNumber(q.correctAnswer)
    \o <<"}">>

RECURSIVE stringifyElements(_, _)
stringifyElements(questions, i) ==
    IF i > Len(questions)
    THEN <<>>
    ELSE (IF i > 1 THEN <<",">> ELSE <<>>)
         \o stringifyQuestion(questions[i])
         \o stringifyElements(questions, i + 1)

\* QuestionGenerator.exportQuestions: JSON.stringify(questions, null, 2)
exportQuestions(questions) ==
    <<"[">> \o stringifyElements(questions, 1) \o <<"]">>

IsDigit(c) == \E d \in 1..10 : DigitChars[d] = c

RECURSIVE readDigits(_, _, _)
readDigits(text, pos, acc) ==
    IF pos <= Len(text) /\ IsDigit(text[pos])
    THEN readDigits(text, pos + 1,
                    10 * acc + (CHOOSE d \in 0..9 : DigitChars[d + 1] = text[pos]))
    ELSE [ok |-> TRUE, value |-> acc, next |-> pos]

\* JSON.parse of a number or null; null is no number
parseNumber(text, pos) ==
    IF pos > Len(text)
    THEN [ok |-> FALSE, value |-> 0, next |-> pos]
    ELSE IF text[pos] = "null"
    THEN [ok |-> TRUE, value |-> NotANumber, next |-> pos + 1]
    ELSE IF text[pos] = "-" /\ pos < Len(text) /\ IsDigit(text[pos + 1])
    THEN LET r == readDigits(text, pos + 1, 0)
         IN [r EXCEPT !.value = 0 - r.value]
    ELSE IF IsDigit(text[pos])
    THEN readDigits(text, pos, 0)
    ELSE [ok |-> FALSE, value |-> 0, next |-> pos]

\* JSON.parse of the members of an object, after "{" or ","
RECURSIVE parseMembers(_, _, _)
parseMembers(text, pos, object) ==
    IF pos + 2 > Len(text) \/ text[pos + 1] # ":"
    THEN [ok |-> FALSE, value |-> object, next |-> pos]
    ELSE LET v == parseNumber(text, pos + 2)
             extended == [k \in (DOMAIN object) \cup {text[pos]} |->
                             IF k = text[pos] THEN v.value ELSE object[k]]
         IN IF ~v.ok \/ v.next > Len(text)
            THEN [ok |-> FALSE, value |-> object, next |-> pos]
            ELSE IF text[v.next] = ","
            THEN parseMembers(text, v.next + 1, extended)
            ELSE [ok |-> text[v.next] = "}", value |-> extended, next |-> v.next + 1]

\* JSON.parse of the elements of an array, after "[" or ","
RECURSIVE parseElements(_, _, _)
parseElements(text, pos, questions) ==
    IF pos > Len(text) \/ text[pos] # "{"
    THEN [ok |-> FALSE, value |-> questions]
    ELSE LET q == parseMembers(text, pos + 1, [k \in {} |-> 0])
         IN IF ~q.ok \/ q.next > Len(text)
            THEN [ok |-> FALSE, value |-> questions]
            ELSE IF text[q.next] = ","
            THEN parseElements(text, q.next + 1, Append(questions, q.value))
            ELSE [ok |-> text[q.next] = "]" /\ q.next = Len(text),
                  value |-> Append(questions, q.value)]

\* JSON.parse of the text of an array of questions
parseJSON(text) ==
    IF Len(text) < 2 \/ text[1] # "["
    THEN [ok |-> FALSE, value |-> <<>>]
    ELSE IF text = <<"[", "]">>
    THEN [ok |-> TRUE, value |-> <<>>]
    ELSE parseElements(text, 2, <<>>)

\* QuestionGenerator.importQuestions: the parsed questions, validated with
\* a warning only (validateQuestion does not throw on a generated question,
\* which has an options array); [] when the text does not parse
importQuestions(jsonString) ==
    LET parsed == parseJSON(jsonString)
    IN IF parsed.ok THEN parsed.value ELSE <<>>

\* questions a generator returns
ExportedQuestions ==
    { [factorA |-> f[1], factorB |-> f[2], correctAnswer |-> f[1] * f[2]] :
        f \in {<<0, 7>>, <<3, 4>>, <<10, 11>>, <<15, 15>>, <<99, 50>>} }

RECURSIVE ListsUpTo(_, _)
ListsUpTo(S, n) ==
    IF n = 0
    THEN {<<>>}
    ELSE ListsUpTo(S, n - 1)
         \cup {Append(l, x) : l \in {m \in ListsUpTo(S, n - 1) : Len(m) = n - 1},
                              x \in S}

InitExport ==
    /\ variant = "A"
    /\ LinearIdle
    /\ ExamClosed
    /\ form = NoForm
    /\ tm = NoTm
    /\ clk = NoClk
    /\ \E qs \in ListsUpTo(ExportedQuestions, MaxExported) :
         gen = [on |-> TRUE, questions |-> qs, phase |-> "generated",
                json |-> <<>>, imported |-> <<>>]

ExportQuestionsCall ==
    /\ gen.on
    /\ gen.phase = "generated"
    /\ gen' = [gen EXCEPT !.phase = "exported",
                          !.json = exportQuestions(gen.questions)]
    /\ UNCHANGED genRest

ImportQuestionsCall ==
    /\ gen.on
    /\ gen.phase = "exported"
    /\ gen' = [gen EXCEPT !.phase = "imported",
                          !.imported = importQuestions(gen.json)]
    /\ UNCHANGED genRest

NextExport ==
    \/ ExportQuestionsCall
    \/ ImportQuestionsCall

SpecExport == InitExport /\ [][NextExport]_vars

\* C24: importQuestions(exportQuestions(qs)) is a list of the same length
\* as qs whose i-th question has the factorA, factorB and correctAnswer of
\* the i-th question of qs.
C24_ExportImportRoundTrip ==
    (gen.on /\ gen.phase = "imported") =>
        /\ Len(gen.imported) = Len(gen.questions)
        /\ \A i \in 1..Len(gen.questions) :
              /\ DOMAIN gen.imported[i] = {"factorA", "factorB", "correctAnswer"}
              /\ gen.imported[i].factorA = gen.questions[i].factorA
              /\ gen.imported[i].factorB = gen.questions[i].factorB
              /\ gen.imported[i].correctAnswer = gen.questions[i].correctAnswer

\* the list 0 x 7, 15 x 15 after the round trip
C24_Witness ==
    /\ gen.on
    /\ gen.phase = "imported"
    /\ Len(gen.imported) = 2
    /\ gen.questions[1].factorA = 0
    /\ gen.questions[2].correctAnswer = 225
    /\ gen.json[5] = "0"

(***************************************************************************)
(* Part XI - Storage on its own (src/js/modules/Storage.js): the history   *)
(* and statistics written by saveTestResults and the leaderboard written   *)
(* by addToLeaderboard, starting from what earlier sessions left in        *)
(* localStorage.  storage.saved and storage.added are history: every       *)
(* result saved and every leaderboard entry added so far, oldest first.    *)
(***************************************************************************)
MaxStorageCalls == 3
LeaderboardCap == 20

\* Storage.validateTestResults: the fields kept, or thrown
validateTestResults(results) ==
    IF ~(results.totalQuestions > 0) \/ ~(results.correctCount >= 0)
    THEN [thrown |-> TRUE, results |-> results]
    ELSE [thrown |-> FALSE,
          results |->
            [totalQuestions |-> results.totalQuestions,
             correctCount |-> results.correctCount,
             scorePercentage |->
                IF results.scorePercentage >= 0 /\ results.scorePercentage <= 100
                THEN results.scorePercentage
                ELSE RoundPercent(results.correctCount, results.totalQuestions)]]

\* the comparison function of addToLeaderboard with the times compared the
\* other way round
compareEntries_timeDescending(a, b) ==
    IF b.score # a.score THEN b.score - a.score ELSE b.time - a.time

\* the comparison function of addToLeaderboard
compareEntries(a, b) ==
    IF b.score # a.score THEN b.score - a.score ELSE a.time - b.time

\* Array.prototype.sort, which is stable: entry put behind the entries of
\* the sorted list that it does not precede
insertEntry(sorted, entry) ==
    LET behind == {i \in 1..Len(sorted) : compareEntries(sorted[i], entry) <= 0}
        k == IF behind = {} THEN 0
             ELSE CHOOSE i \in behind : \A j \in behind : j <= i
    IN SubSeq(sorted, 1, k) \o <<entry>> \o SubSeq(sorted, k + 1, Len(sorted))

RECURSIVE sortLeaderboard(_)
sortLeaderboard(leaderboard) ==
    IF leaderboard = <<>>
    THEN <<>>
    ELSE insertEntry(sortLeaderboard(SubSeq(leaderboard, 1, Len(leaderboard) - 1)),
                     leaderboard[Len(leaderboard)])

\* Storage.addToLeaderboard, when localStorage accepts the write
addToLeaderboard(leaderboard, name, score, time) ==
    LET sorted == sortLeaderboard(Append(leaderboard,
                                         [name |-> name, score |-> score,
                                          time |-> time]))
    IN IF Len(sorted) > LeaderboardCap
       THEN SubSeq(sorted, 1, LeaderboardCap)
       ELSE sorted

\* the history n saved results leave, the oldest numbered 1
StoredHistory(n) ==
    [i \in 1..n |-> [totalQuestions |-> n - i + 1, correctCount |-> 0,
                     scorePercentage |-> 0]]

\* the leaderboard n entries with falling scores leave
StoredLeaderboard(n) ==
    [i \in 1..n |-> [name |-> 0 - i, score |-> 101 - i, time |-> 300]]

RECURSIVE Reversed(_)
Reversed(s) ==
    IF s = <<>> THEN <<>> ELSE Append(Reversed(Tail(s)), Head(s))

\* the results saveTestResults is called with
SavedResults ==
    { [totalQuestions |-> r[1], correctCount |-> r[2], scorePercentage |-> r[3]] :
        r \in {<<0, 0, 0>>, <<5, 4, 80>>, <<10, 6, 60>>, <<10, 5, 50>>,
               <<3, 2, 150>>} }

InitLocalStorage ==
    /\ variant = "A"
    /\ currentTest = NoTest
    /\ currentQuestionIndex = 0
    /\ userAnswers = <<>>
    /\ isNavigating = FALSE
    /\ selectedAnswerIndex = NoIndex
    /\ timedOutCurrent = FALSE
    /\ timer = NoTimer
    /\ ui = InitUI
    /\ navResetPending = 0
    /\ testsStarted = 0
    /\ lastSel = <<>>
    /\ lastEvent = NoEvent
    /\ storageOK = TRUE
    /\ ExamClosed
    /\ UnitsIdle
    /\ \E n \in {0, 1, HistoryCap - 1, HistoryCap},
          averageScore \in {67, 80},
          m \in {0, LeaderboardCap - 1, LeaderboardCap} :
         storage = [history |-> StoredHistory(n),
                    stats |-> [totalTests |-> n, totalQuestions |-> n * 10,
                               correctAnswers |-> n * 8, bestScore |-> 100,
                               averageScore |-> IF n = 0 THEN 0 ELSE averageScore],
                    leaderboard |-> StoredLeaderboard(m),
                    saved |-> Reversed(StoredHistory(n)),
                    added |-> StoredLeaderboard(m),
                    lastCall |-> "none", calls |-> 0]

\* everything but Storage
storageRest == <<variant, currentTest, currentQuestionIndex, userAnswers,
                 isNavigating, selectedAnswerIndex, timedOutCurrent, timer,
                 storageOK, ui, navResetPending, testsStarted, lastSel,
                 lastEvent, examVars, unitVars>>

\* Storage.saveTestResults(results)
SaveTestResultsCall ==
    /\ storage.calls < MaxStorageCalls
    /\ \E results \in SavedResults :
         LET v == validateTestResults(results)
             w == saveTestResults(storage, v.results)
         IN storage' =
              IF v.thrown
              THEN [storage EXCEPT !.lastCall = "thrown", !.calls = @ + 1]
              ELSE [storage EXCEPT !.history = w.history, !.stats = w.stats,
                                   !.saved = Append(@, v.results),
                                   !.lastCall = "saved", !.calls = @ + 1]
    /\ UNCHANGED storageRest

\* Storage.addToLeaderboard(name, score, time)
AddToLeaderboardCall ==
    /\ storage.calls < MaxStorageCalls
    /\ \E score \in {0, 81, 100}, time \in {200, 300, 400} :
         LET name == Len(storage.added) + 1
         IN storage' =
              [storage EXCEPT
                 !.leaderboard = addToLeaderboard(@, name, score, time),
                 !.added = Append(@, [name |-> name, score |-> score,
                                      time |-> time]),
                 !.lastCall = "added", !.calls = @ + 1]
    /\ UNCHANGED storageRest

NextLocalStorage ==
    \/ SaveTestResultsCall
    \/ AddToLeaderboardCall

SpecLocalStorage == InitLocalStorage /\ [][NextLocalStorage]_vars

\* C25: after any sequence of saveTestResults calls the stored history lists
\* the results most recent first, the last one saved at index 0, holds at
\* most 50 entries, and the entries dropped are the oldest.
C25_HistoryRecentFirstCapped ==
    LET n == Len(storage.saved)
    IN /\ Len(storage.history) <= 50
       /\ Len(storage.history) = IF n > 50 THEN 50 ELSE n
       /\ \A i \in 1..Len(storage.history) :
             storage.history[i] = storage.saved[n - i + 1]

\* three results saved on top of a full history
C25_Witness ==
    /\ Len(storage.saved) = 53
    /\ Len(storage.history) = 50
    /\ storage.history[1].scorePercentage = 67
    /\ storage.history[2].scorePercentage = 80
    /\ storage.history[50].totalQuestions = 4

\* entry a is placed before entry b: higher score, or equal score and
\* shorter time
Better(a, b) == a.score > b.score \/ (a.score = b.score /\ a.time < b.time)

\* C26: after any sequence of addToLeaderboard calls the leaderboard is
\* sorted by score descending, ties by time ascending, holds at most 20
\* entries, and these are the best 20 of all entries ever added.
C26_LeaderboardBestTwenty ==
    LET board == storage.leaderboard
        onBoard == {board[i].name : i \in 1..Len(board)}
    IN /\ Len(board) <= 20
       /\ Len(board) = IF Len(storage.added) > 20 THEN 20 ELSE Len(storage.added)
       /\ \A i \in 1..(Len(board) - 1) : ~Better(board[i + 1], board[i])
       /\ \A i \in 1..Len(board) :
             \E k \in 1..Len(storage.added) : storage.added[k] = board[i]
       /\ \A k \in 1..Len(storage.added) :
             storage.added[k].name \notin onBoard =>
                 \A i \in 1..Len(board) : ~Better(storage.added[k], board[i])

\* a full leaderboard to which an entry equal to its last one in score and
\* time, then a faster one and a better one were added
C26_Witness ==
    /\ Len(storage.added) = 23
    /\ Len(storage.leaderboard) = 20
    /\ storage.added[21].score = 81 /\ storage.added[21].time = 300
    /\ storage.added[22].score = 81 /\ storage.added[22].time = 200
    /\ storage.added[23].score = 100 /\ storage.added[23].time = 400
    /\ storage.leaderboard[2].name = 23
    /\ storage.leaderboard[20].score = 82

\* C27: each saved result adds exactly 1 to totalTests and makes averageScore
\* round((oldAverage * oldCount + newScore) / (oldCount + 1)); an average
\* of 80 over 1 test and a test scoring 60 give 70.
C27_Step ==
    Len(storage'.saved) # Len(storage.saved) =>
        LET oldCount == storage.stats.totalTests
            oldAverage == storage.stats.averageScore
            newScore == storage'.saved[Len(storage'.saved)].scorePercentage
            total == oldAverage * oldCount + newScore
            average == storage'.stats.averageScore
        IN /\ storage'.stats.totalTests = oldCount + 1
           /\ 2 * average * (oldCount + 1) <= 2 * total + (oldCount + 1)
           /\ 2 * total + (oldCount + 1) < 2 * (average + 1) * (oldCount + 1)
           /\ (oldCount = 1 /\ oldAverage = 80 /\ newScore = 60) => average = 70

C27_AverageUpdatedIncrementally == [][C27_Step]_vars

\* the average 80 of one test, then a test scoring 60, then one scoring 50
C27_Witness ==
    /\ Len(storage.saved) = 3
    /\ storage.saved[2].scorePercentage = 60
    /\ storage.saved[3].scorePercentage = 50
    /\ storage.stats.totalTests = 3
    /\ storage.stats.averageScore = 63

(***************************************************************************)
(* Part XII - the current-question index, auto-advance and skipping.       *)
(***************************************************************************)
\* the linear flow, within one session: the index does not decrease and
\* does not exceed the number of questions
C28_LinearStep ==
    (currentTest # NoTest /\ currentTest' # NoTest /\ testsStarted' = testsStarted)
        => /\ currentQuestionIndex' >= currentQuestionIndex
           /\ currentQuestionIndex' <= Len(currentTest'.questions)

C28_LinearIndexMonotoneBounded == [][C28_LinearStep]_vars

C28_ExamStep ==
    (exam.present /\ exam'.present)
        => /\ exam'.currentIndex >= 0
           /\ exam'.currentIndex <= Len(exam'.questions) - 1
           /\ exam'.currentIndex # exam.currentIndex
                 => examEvent'.kind \in {"next", "prev"}

\* C28: in the free-navigation exam the current-question index always stays
\* within 0..questions.length-1 and changes only through explicit
\* navigation (next / previous).
C28_ExamIndexExplicitNavigationOnly == [][C28_ExamStep]_vars

(***************************************************************************)
(* TrainingController (src/assets/js/training.js), the practice page.      *)
(* gen holds the controller: pending counts the setTimeout callbacks of    *)
(* submitAnswer not yet run; selections, advances and scored (the indices   *)
(* of the questions scored in this session, in order) are history.         *)
(***************************************************************************)
MaxTrainings == 3
MaxTrainingQuestions == 4

\* the option at position (index % 4) + 1 is the correct one
trainingIsCorrect(index, position) == position = (index % 4) + 1

\* TrainingController.showQuestion
trainingShowQuestion(t) ==
    IF t.currentIndex >= t.questionCount
    THEN [t EXCEPT !.modalShown = TRUE]
    ELSE [t EXCEPT !.isAnswered = FALSE]

\* TrainingController.startTraining
startTraining(t, questionCount) ==
    trainingShowQuestion([t EXCEPT !.questionCount = questionCount,
                                   !.currentIndex = 0, !.correctCount = 0,
                                   !.wrongCount = 0, !.isAnswered = FALSE,
                                   !.scored = <<>>,
                                   !.trainings = @ + 1])

\* selectAnswer and submitAnswer without the isAnswered checks
selectAndSubmit_unguarded(t, position) ==
    LET isCorrect == trainingIsCorrect(t.currentIndex, position)
    IN [t EXCEPT !.isAnswered = TRUE,
                 !.correctCount = IF isCorrect THEN @ + 1 ELSE @,
                 !.wrongCount = IF isCorrect THEN @ ELSE @ + 1,
                 !.scored = Append(@, t.currentIndex),
                 !.pending = @ + 1,
                 !.selections = @ + 1]

\* TrainingController.selectAnswer followed by submitAnswer, as the click
\* and key handlers call them (Enter finds no selected button: submitAnswer
\* removes the class that selectAnswer has set)
selectAndSubmit(t, position) ==
    IF t.isAnswered
    THEN t
    ELSE LET isCorrect == trainingIsCorrect(t.currentIndex, position)
         IN [t EXCEPT !.isAnswered = TRUE,
                      !.correctCount = IF isCorrect THEN @ + 1 ELSE @,
                      !.wrongCount = IF isCorrect THEN @ ELSE @ + 1,
                      !.scored = Append(@, t.currentIndex),
                      !.pending = @ + 1,
                      !.selections = @ + 1]

\* TrainingController.nextQuestion
trainingNextQuestion(t) ==
    trainingShowQuestion([t EXCEPT !.currentIndex = @ + 1, !.advances = @ + 1])

\* the page has loaded: new TrainingController() has run startTraining()
InitTraining ==
    /\ variant = "A"
    /\ LinearIdle
    /\ ExamClosed
    /\ form = NoForm
    /\ tm = NoTm
    /\ clk = NoClk
    /\ \E questionCount \in 1..MaxTrainingQuestions :
         gen = startTraining([on |-> TRUE, questionCount |-> 0, currentIndex |-> 0,
                              correctCount |-> 0, wrongCount |-> 0,
                              scored |-> <<>>,
                              isAnswered |-> FALSE, modalShown |-> FALSE,
                              pending |-> 0, selections |-> 0, advances |-> 0,
                              trainings |-> 0], questionCount)

\* click on an answer button (the completion modal covers the buttons)
TrainingAnswerClick ==
    /\ gen.on
    /\ ~gen.modalShown
    /\ ~gen.isAnswered
    /\ \E position \in 1..4 : gen' = selectAndSubmit(gen, position)
    /\ UNCHANGED genRest

\* keys 1..4
TrainingAnswerKey ==
    /\ gen.on
    /\ \E position \in 1..4 : gen' = selectAndSubmit(gen, position)
    /\ UNCHANGED genRest

\* the callback of setTimeout(..., 1000) in submitAnswer runs
TrainingFeedbackTimeout ==
    /\ gen.on
    /\ gen.pending > 0
    /\ gen' = trainingNextQuestion([gen EXCEPT !.pending = @ - 1])
    /\ UNCHANGED genRest

\* click on #start-new-training in the completion modal
StartNewTrainingClick ==
    /\ gen.on
    /\ gen.modalShown
    /\ gen.trainings < MaxTrainings
    /\ gen' = startTraining([gen EXCEPT !.modalShown = FALSE], gen.questionCount)
    /\ UNCHANGED genRest

NextTraining ==
    \/ TrainingAnswerClick
    \/ TrainingAnswerKey
    \/ TrainingFeedbackTimeout
    \/ StartNewTrainingClick

SpecTraining == InitTraining /\ [][NextTraining]_vars

\* practice mode: a selection leaves the question in place and schedules
\* one advance; the advance comes without user action, and only selections
\* are followed by advances
C29_PracticeStep ==
    /\ gen'.selections # gen.selections
          => /\ gen'.currentIndex = gen.currentIndex
             /\ gen.pending = 0 /\ gen'.pending = 1
             /\ gen'.advances = gen.advances
    /\ gen'.advances # gen.advances
          => /\ gen.pending = 1 /\ gen'.pending = 0
             /\ gen'.advances = gen.advances + 1
             /\ gen'.currentIndex = gen.currentIndex + 1
    /\ gen'.selections = gen'.advances + gen'.pending
    /\ gen.pending = 1 => ENABLED TrainingFeedbackTimeout

C29_PracticeOneAdvancePerSelection == [][C29_PracticeStep]_vars

C29_ExamStep ==
    (exam.present /\ exam'.present)
        => /\ examEvent'.kind = "select" => exam'.currentIndex = exam.currentIndex
           /\ exam'.currentIndex # exam.currentIndex
                 => examEvent'.kind \in {"next", "prev", "end", "end-declined"}

\* C29: in exam mode a selection alone never changes the current question,
\* which moves only on explicit user action (in practice mode every
\* selection is followed by exactly one advance after the feedback delay).
C29_ExamMovesOnUserActionOnly == [][C29_ExamStep]_vars

(***************************************************************************)
(* The exam page with the allowSkip setting: ExamController.loadSettings   *)
(* merges the saved examSettings over defaults in which allowSkip is true, *)
(* so a saved allowSkip: false is what settings.allowSkip holds.           *)
(***************************************************************************)
\* ExamController.loadSettings
examLoadSettings(savedSettings) ==
    [questionCount |-> savedSettings.questionCount,
     timerMode |-> savedSettings.timerMode,
     timerDuration |-> savedSettings.timerDuration,
     allowSkip |-> IF savedSettings.hasAllowSkip THEN savedSettings.allowSkip
                   ELSE TRUE]

\* the examSettings found in localStorage
SavedExamSettings ==
    [questionCount : 1..MaxQuestions, timerMode : TimerModes,
     timerDuration : {1}, hasAllowSkip : BOOLEAN, allowSkip : {FALSE}]

\* the page has loaded: new ExamController() has run loadSettings() and
\* startExam()
ExamSkipInit ==
    /\ variant = "A"
    /\ LinearIdle
    /\ UnitsIdle
    /\ examPage = "exam"
    /\ examEvent = NoExamEvent
    /\ \E savedSettings \in SavedExamSettings :
         LET settings == examLoadSettings(savedSettings)
             x == startExam(settings, generateQuestions(settings.questionCount),
                            [examSessions |-> <<>>, currentResult |-> <<>>])
         IN /\ exam = x.ctl
            /\ examStorage = x.store
            /\ examTimedOut = x.timedOut

SpecExamSkip == ExamSkipInit /\ [][ExamPageNext]_vars

\* C30: in the exam variant a question can be passed without a selection and
\* recorded as skipped only when the settings allow skipping: with skipping
\* not allowed (and no timer running, so that questions are passed by user
\* navigation only) no question ends up with a skipped entry.
C30_SkippedOnlyWhenAllowed ==
    (exam.present /\ ~exam.settings.allowSkip /\ exam.settings.timerMode = "off")
        => \A i \in 1..Len(exam.answers) : ~exam.answers[i].skipped

(***************************************************************************)
(* Part XIII - Timer on its own (src/js/modules/Timer.js), started with    *)
(* any duration.  timer.completed is history: the onComplete callback has  *)
(* been called since the last start.                                       *)
(***************************************************************************)
MaxTimerStarts == 3

\* Timer.isExpired
isExpired(t) == getRemainingTime(t) <= 0

\* Timer.tick
moduleTimerTick(t) ==
    IF getRemainingTime(t) <= 0
    THEN [TimerStop(t) EXCEPT !.completed = TRUE]
    ELSE t

\* Timer.start(duration), its initial tick included
moduleTimerStart(t, duration) ==
    moduleTimerTick([TimerStart(TimerStop(t), duration) EXCEPT !.completed = FALSE])

\* Timer.reset
moduleTimerReset(t) == [TimerStop(t) EXCEPT !.duration = 0]

\* new Timer()
InitModuleTimer ==
    /\ variant = "A"
    /\ currentTest = NoTest
    /\ currentQuestionIndex = 0
    /\ userAnswers = <<>>
    /\ isNavigating = FALSE
    /\ selectedAnswerIndex = NoIndex
    /\ timedOutCurrent = FALSE
    /\ storage = EmptyStorage
    /\ ui = InitUI
    /\ navResetPending = 0
    /\ testsStarted = 0
    /\ lastSel = <<>>
    /\ lastEvent = NoEvent
    /\ storageOK = TRUE
    /\ ExamClosed
    /\ UnitsIdle
    /\ timer = [timerId |-> FALSE, duration |-> 0, elapsed |-> 0,
                isRunning |-> FALSE, startedFor |-> 0, completed |-> FALSE,
                starts |-> 0]

\* everything but the Timer
timerRest == <<variant, currentTest, currentQuestionIndex, userAnswers,
               isNavigating, selectedAnswerIndex, timedOutCurrent, storage,
               storageOK, ui, navResetPending, testsStarted, lastSel,
               lastEvent, examVars, unitVars>>

\* timer.start(duration)
ModuleTimerStartCall ==
    /\ timer.starts < MaxTimerStarts
    /\ \E duration \in {0 - 5, 0, 1, 2, 3, 10} :
         timer' = [moduleTimerStart(timer, duration) EXCEPT !.starts = @ + 1]
    /\ UNCHANGED timerRest

\* the interval installed by start fires, one second after the last tick
ModuleTimerInterval ==
    /\ timer.timerId
    /\ timer' = moduleTimerTick([timer EXCEPT !.elapsed = @ + 1])
    /\ UNCHANGED timerRest

\* timer.stop()
ModuleTimerStopCall ==
    /\ timer' = TimerStop(timer)
    /\ UNCHANGED timerRest

\* timer.reset()
ModuleTimerResetCall ==
    /\ timer' = moduleTimerReset(timer)
    /\ UNCHANGED timerRest

NextModuleTimer ==
    \/ ModuleTimerStartCall
    \/ ModuleTimerInterval
    \/ ModuleTimerStopCall
    \/ ModuleTimerResetCall

SpecModuleTimer == InitModuleTimer /\ [][NextModuleTimer]_vars

\* C31: once a timer's countdown has reached zero (its completion callback
\* has fired), isExpired() returns true and the remaining time reads 0 until
\* the timer is started again, for every start duration including zero and
\* negative ones.
C31_ExpiredAfterCompletion ==
    timer.completed => isExpired(timer) /\ getRemainingTime(timer) = 0

(***************************************************************************)
(* Part XIV - the stored settings (Storage.saveSettings, getSettings and   *)
(* importData of src/js/modules/Storage.js).  storage.settings is the item *)
(* multiplication_trainer_settings of localStorage, <<>> while it is not   *)
(* set; storageOK tells whether localStorage.setItem succeeds.  A field    *)
(* that is missing or not a number is NotANumber, a mode that is missing   *)
(* or not one of the three is "undefined" or "bogus".                      *)
(***************************************************************************)
MaxSettingsCalls == 2

\* the settings objects handed to saveSettings or found in imported data
GivenSettings ==
    [questionCount : {NotANumber, 0, 1, 15, 50, 51},
     timerMode : TimerModes \cup {"undefined", "bogus"},
     timerDuration : {NotANumber, 4, 5, 30, 300, 301}]

NoCall == [kind |-> "none", thrown |-> FALSE, returned |-> FALSE,
           given |-> NoSettings]

\* Storage.saveSettings(settings): ok tells whether setItem succeeds
saveSettings(st, ok, settings) ==
    IF ok
    THEN [st EXCEPT !.settings = <<validateSettings(settings)>>,
                    !.lastCall = [kind |-> "saveSettings", thrown |-> FALSE,
                                  returned |-> TRUE, given |-> settings]]
    ELSE [st EXCEPT !.lastCall = [kind |-> "saveSettings", thrown |-> TRUE,
                                  returned |-> FALSE, given |-> settings]]

\* Storage.importData(jsonData): data is <<>> for text that JSON.parse
\* rejects, otherwise the parsed object, whose settings are <<>> if absent
importData(st, ok, data) ==
    IF data = <<>>
    THEN [st EXCEPT !.lastCall = [kind |-> "importData", thrown |-> FALSE,
                                  returned |-> FALSE, given |-> NoSettings]]
    ELSE IF data[1].settings = <<>>
    THEN [st EXCEPT !.lastCall = [kind |-> "importData", thrown |-> FALSE,
                                  returned |-> TRUE, given |-> NoSettings]]
    ELSE IF ok
    THEN [st EXCEPT !.settings = data[1].settings,
                    !.lastCall = [kind |-> "importData", thrown |-> FALSE,
                                  returned |-> TRUE,
                                  given |-> data[1].settings[1]]]
    ELSE [st EXCEPT !.lastCall = [kind |-> "importData", thrown |-> FALSE,
                                  returned |-> FALSE,
                                  given |-> data[1].settings[1]]]

\* Storage.getSettings: <<>> is null
getSettings(st) == st.settings

\* new Storage(), nothing stored yet
InitStoredSettings ==
    /\ variant = "A"
    /\ currentTest = NoTest
    /\ currentQuestionIndex = 0
    /\ userAnswers = <<>>
    /\ isNavigating = FALSE
    /\ selectedAnswerIndex = NoIndex
    /\ timedOutCurrent = FALSE
    /\ timer = NoTimer
    /\ ui = InitUI
    /\ navResetPending = 0
    /\ testsStarted = 0
    /\ lastSel = <<>>
    /\ lastEvent = NoEvent
    /\ storageOK \in BOOLEAN
    /\ ExamClosed
    /\ UnitsIdle
    /\ storage = [settings |-> <<>>, lastCall |-> NoCall, calls |-> 0]

\* storage.saveSettings(settings)
SaveSettingsCall ==
    /\ storage.calls < MaxSettingsCalls
    /\ \E settings \in GivenSettings :
         storage' = [saveSettings(storage, storageOK, settings)
                        EXCEPT !.calls = @ + 1]
    /\ UNCHANGED storageRest

\* storage.importData(jsonData)
ImportDataCall ==
    /\ storage.calls < MaxSettingsCalls
    /\ \E data \in {<<>>, <<[settings |-> <<>>]>>}
                     \cup {<<[settings |-> <<g>>]>> : g \in GivenSettings} :
         storage' = [importData(storage, storageOK, data) EXCEPT !.calls = @ + 1]
    /\ UNCHANGED storageRest

NextStoredSettings ==
    \/ SaveSettingsCall
    \/ ImportDataCall

SpecStoredSettings == InitStoredSettings /\ [][NextStoredSettings]_vars

\* C32: Storage.saveSettings handles a failing localStorage write
\* gracefully: it does not raise to its caller when the underlying write
\* throws.
C32_SaveSettingsDoesNotThrow ==
    storage.lastCall.kind = "saveSettings" => ~storage.lastCall.thrown

\* a settings object as the claim C34 wants it returned
ValidSettings(settings) ==
    /\ settings.questionCount \in 1..50
    /\ settings.timerDuration \in 5..300
    /\ settings.timerMode \in {"off", "per-question", "total-time"}

\* C34: after any sequence of saveSettings and importData calls the settings
\* returned by getSettings have questionCount in 1..50, timerDuration in
\* 5..300 and timerMode in {off, per-question, total-time}; after a save,
\* every field that was valid when saved is returned unchanged and every
\* invalid or missing field is replaced by its default.
C34_StoredSettingsValid ==
    getSettings(storage) # <<>> =>
        LET returned == getSettings(storage)[1]
            given == storage.lastCall.given
        IN /\ ValidSettings(returned)
           /\ (storage.lastCall.kind = "saveSettings" /\ storage.lastCall.returned)
                => /\ returned.questionCount =
                        IF given.questionCount \in 1..50
                        THEN given.questionCount ELSE 10
                   /\ returned.timerDuration =
                        IF given.timerDuration \in 5..300
                        THEN given.timerDuration ELSE 30
                   /\ returned.timerMode =
                        IF given.timerMode \in {"off", "per-question", "total-time"}
                        THEN given.timerMode ELSE "off"

(***************************************************************************)
(* Part XV - the digit-swap strategy on its own                            *)
(* (QuestionGenerator.generateSwapDigitsDistractor of src/unnamed/part_006, *)
(* the same in both revisions).  gen holds the answer and the value        *)
(* returned, in tenths like every option value.                            *)
(***************************************************************************)
MaxSwapAnswer == 130

\* a correct answer to derive a distractor from
InitSwap ==
    /\ variant = "A"
    /\ LinearIdle
    /\ ExamClosed
    /\ form = NoForm
    /\ tm = NoTm
    /\ clk = NoClk
    /\ \E correctAnswer \in 0..MaxSwapAnswer :
         gen = [on |-> TRUE, correctAnswer |-> correctAnswer,
                phase |-> "given", distractor |-> 0]

\* generator.generateSwapDigitsDistractor(correctAnswer)
SwapDigitsCall ==
    /\ gen.on
    /\ gen.phase = "given"
    /\ \E distractor \in generateSwapDigitsDistractor(gen.correctAnswer) :
         gen' = [gen EXCEPT !.phase = "swapped", !.distractor = distractor]
    /\ UNCHANGED genRest

NextSwap ==
    \/ SwapDigitsCall

SpecSwap == InitSwap /\ [][NextSwap]_vars

\* C33: for every answer value with at least two decimal digits, the
\* digit-swap distractor differs from the answer and has the same number of
\* decimal digits as the answer.
C33_SwapKeepsDigitCount ==
    (gen.phase = "swapped" /\ gen.correctAnswer >= 10)
        => /\ gen.distractor # Tenth(gen.correctAnswer)
           /\ Len(toDigits(gen.distractor \div 10)) = Len(toDigits(gen.correctAnswer))

(***************************************************************************)
(* Part XVI - question ids (QuestionGenerator.generateQuestionId of        *)
(* src/unnamed/part_006, the same in both revisions).  gen holds the clock *)
(* in milliseconds and the ids of the questions generated so far; the id   *)
(* q_<Date.now()>_<randomInt(1000, 9999)> is the pair of its two numbers.  *)
(***************************************************************************)
MaxIds == 3
MaxMillis == 2

\* the numbers randomInt(1000, 9999) returns that are looked at
IdDraws == {1000, 1001, 9999}

\* QuestionGenerator.generateQuestionId
generateQuestionId(now) == {<<now, r>> : r \in IdDraws}

\* new QuestionGenerator()
InitIds ==
    /\ variant = "A"
    /\ LinearIdle
    /\ ExamClosed
    /\ form = NoForm
    /\ tm = NoTm
    /\ clk = NoClk
    /\ gen = [on |-> TRUE, now |-> 0, ids |-> <<>>]

\* one round of the loop of generateQuestions: generateQuestion creates a
\* question with a new id
GenerateIdCall ==
    /\ gen.on
    /\ Len(gen.ids) < MaxIds
    /\ \E id \in generateQuestionId(gen.now) :
         gen' = [gen EXCEPT !.ids = Append(@, id)]
    /\ UNCHANGED genRest

\* a millisecond passes
MillisecondPasses ==
    /\ gen.on
    /\ gen.now < MaxMillis
    /\ gen' = [gen EXCEPT !.now = @ + 1]
    /\ UNCHANGED genRest

NextIds ==
    \/ GenerateIdCall
    \/ MillisecondPasses

SpecIds == InitIds /\ [][NextIds]_vars

\* C35: all questions produced by one generator carry pairwise distinct
\* ids, including questions generated within the same millisecond.
C35_IdsPairwiseDistinct ==
    \A i, j \in 1..Len(gen.ids) : i # j => gen.ids[i] # gen.ids[j]

(***************************************************************************)
(* Part XVII - results and countdowns of the exam page.                    *)
(***************************************************************************)
\* the questions of the exam whose selected option satisfies Test; a
\* question without selection satisfies none
SelectedWith(Test(_)) ==
    {i \in 1..Len(exam'.questions) :
        /\ exam'.tempSelections[i] # NoPosition
        /\ \E k \in 1..Len(exam'.questions[i].options) :
              /\ exam'.questions[i].options[k].position = exam'.tempSelections[i]
              /\ Test(exam'.questions[i].options[k])}

C36_IsCorrect(option) == option.isCorrect

C36_IsWrong(option) == ~option.isCorrect

C36_Step ==
    Len(examStorage'.examSessions) > Len(examStorage.examSessions) =>
        LET result == examStorage'.examSessions[Len(examStorage'.examSessions)]
        IN /\ result.totalQuestions = Len(exam'.questions)
           /\ result.correctCount = Cardinality(SelectedWith(C36_IsCorrect))
           /\ result.wrongCount = Cardinality(SelectedWith(C36_IsWrong))
           /\ result.skippedCount =
                Cardinality({i \in 1..Len(exam'.questions) :
                                exam'.tempSelections[i] = NoPosition})
           /\ result.correctCount + result.wrongCount + result.skippedCount
                = result.totalQuestions

\* C36: every exam Result partitions the questions: correctCount +
\* wrongCount + skippedCount = totalQuestions, where wrong counts the
\* answered-but-incorrect questions and skipped the questions with no
\* selection, whatever navigation and selection sequence preceded finalize.
C36_ResultPartitionsQuestions == [][C36_Step]_vars

\* a result of two questions, one answered wrongly and one left out
C36_Witness ==
    /\ examStorage.currentResult # <<>>
    /\ examStorage.currentResult[1].totalQuestions = 2
    /\ examStorage.currentResult[1].correctCount = 0
    /\ examStorage.currentResult[1].wrongCount = 1
    /\ examStorage.currentResult[1].skippedCount = 1

(***************************************************************************)
(* Part XVIII - scoring in a training session.                             *)
(***************************************************************************)
C37_Step ==
    /\ gen'.pending \in {0, 1}
    /\ gen'.scored = [i \in 1..Len(gen'.scored) |-> i - 1]
    /\ gen'.correctCount + gen'.wrongCount = Len(gen'.scored)
    /\ Len(gen'.scored) = gen'.currentIndex + gen'.pending
    /\ (gen'.currentIndex # gen.currentIndex /\ gen'.trainings = gen.trainings)
          => gen.pending = 1 /\ gen'.currentIndex = gen.currentIndex + 1
    /\ (gen.isAnswered /\ gen'.advances = gen.advances
                       /\ gen'.trainings = gen.trainings)
          => gen' = gen
    /\ gen'.modalShown
          => /\ gen'.currentIndex = gen'.questionCount
             /\ gen'.correctCount + gen'.wrongCount = gen'.questionCount

\* C37: in a training session each question is scored exactly once: clicks
\* and key presses arriving during the feedback delay, after an answer was
\* submitted, are ignored, so the index advances exactly once per question
\* and at completion correctCount + wrongCount equals the number of
\* questions.
C37_EachQuestionScoredOnce == [][C37_Step]_vars

\* a completed training of three questions, two of them answered correctly
C37_Witness ==
    /\ gen.on
    /\ gen.modalShown
    /\ gen.questionCount = 3
    /\ gen.correctCount = 2
    /\ gen.wrongCount = 1
    /\ gen.selections = 3

\* C38: in the exam's per-question timer mode, as long as the exam is not
\* complete a per-question countdown is running for the displayed question;
\* a navigation request that does not change the question (Previous on the
\* first question, or Next on the last one with the end prompt declined)
\* leaves that countdown running.
C38_QuestionCountdownRunning ==
    (exam.present /\ exam.settings.timerMode = "per-question"
                  /\ ~exam.isExamComplete)
        => /\ exam.questionTimer.exists
           /\ exam.questionTimer.isRunning
           /\ exam.questionTimer.forIndex = exam.currentIndex

(***************************************************************************)
(* Part XIX - the total-time countdown of the linear session.              *)
(***************************************************************************)
C39_Step ==
    (Running /\ TimerMode = "total-time") =>
        /\ timer.isRunning
        /\ timer.duration = currentTest.settings.timerDuration
        /\ timer.elapsed < timer.duration
        /\ (currentTest'.present /\ currentTest'.results = <<>>
                                 /\ testsStarted' = testsStarted)
              => /\ timer'.isRunning
                 /\ timer'.duration = timer.duration
                 /\ timer'.elapsed >= timer.elapsed
                 /\ getRemainingTime(timer') <= getRemainingTime(timer)
                 /\ timer'.elapsed < timer'.duration
        /\ lastEvent'.kind \in {"select", "next"} /\ lastEvent' # lastEvent
              => timer'.elapsed = timer.elapsed /\ timer'.duration = timer.duration

\* C39: in total-time mode the single countdown started at Start is never
\* restarted or extended by Select or Advance: the remaining total time is
\* non-increasing throughout the session, and the session is Completed no
\* later than the configured total duration after Start.
C39_TotalCountdownNeverRestarted == [][C39_Step]_vars

\* the second question is shown while a second of the total time has passed
C39_Witness ==
    /\ Running
    /\ TimerMode = "total-time"
    /\ currentQuestionIndex = 1
    /\ timer.isRunning
    /\ timer.duration = 2
    /\ timer.elapsed = 1

(***************************************************************************)
(* Part XX - the leaderboard page (LeaderboardController of                *)
(* src/assets/js/training.js).  An entry is its id.  gen holds the three   *)
(* localStorage items the page reads, the controller's leaderboard and     *)
(* currentScore (0 is null); deleted is history: the ids deleted so far.   *)
(***************************************************************************)
MaxDeletes == 2

Range(s) == {s[i] : i \in 1..Len(s)}

\* filter((item, index, self) => index === self.findIndex(t => t.id === item.id))
removeDuplicates(list) ==
    LET kept == {i \in 1..Len(list) : \A j \in 1..(i - 1) : list[j] # list[i]}
        F[i \in 0..Len(list)] ==
            IF i = 0 THEN <<>>
            ELSE IF i \in kept THEN Append(F[i - 1], list[i]) ELSE F[i - 1]
    IN F[Len(list)]

\* LeaderboardController.loadLeaderboard
loadLeaderboard(c) ==
    [c EXCEPT !.leaderboard =
        removeDuplicates(c.savedLeaderboard \o c.trainingSessions \o c.examSessions)]

\* LeaderboardController.hideScoreDetails
hideScoreDetails(c) == [c EXCEPT !.currentScore = 0]

\* LeaderboardController.deleteCurrentScore
deleteCurrentScore(c) ==
    IF c.currentScore = 0
    THEN c
    ELSE LET leaderboard == SelectSeq(c.leaderboard,
                                      LAMBDA id : id # c.currentScore)
         IN loadLeaderboard(hideScoreDetails(
                [c EXCEPT !.leaderboard = leaderboard,
                          !.savedLeaderboard = leaderboard,
                          !.deleted = @ \cup {c.currentScore}]))

\* LeaderboardController.clearAllScores
clearAllScores(c) ==
    loadLeaderboard([c EXCEPT !.savedLeaderboard = <<>>, !.leaderboard = <<>>])

\* the page has loaded: new LeaderboardController() has run loadLeaderboard()
\* on what the training and exam pages have stored
InitLeaderboard ==
    /\ variant = "A"
    /\ LinearIdle
    /\ ExamClosed
    /\ form = NoForm
    /\ tm = NoTm
    /\ clk = NoClk
    /\ \E trainingSessions \in {<<>>, <<1>>, <<1, 2>>},
          examSessions \in {<<>>, <<3>>},
          savedLeaderboard \in {<<>>, <<4>>, <<4, 1>>, <<5, 4>>} :
         gen = loadLeaderboard([on |-> TRUE,
                                trainingSessions |-> trainingSessions,
                                examSessions |-> examSessions,
                                savedLeaderboard |-> savedLeaderboard,
                                leaderboard |-> <<>>, currentScore |-> 0,
                                deleted |-> {}])

\* click on an entry of the list
ShowScoreDetailsClick ==
    /\ gen.on
    /\ gen.currentScore = 0
    /\ \E id \in Range(gen.leaderboard) : gen' = [gen EXCEPT !.currentScore = id]
    /\ UNCHANGED genRest

\* click on #close-details
CloseDetailsClick ==
    /\ gen.on
    /\ gen.currentScore # 0
    /\ gen' = hideScoreDetails(gen)
    /\ UNCHANGED genRest

\* click on #delete-score in the details modal
DeleteScoreClick ==
    /\ gen.on
    /\ gen.currentScore # 0
    /\ Cardinality(gen.deleted) < MaxDeletes
    /\ gen' = deleteCurrentScore(gen)
    /\ UNCHANGED genRest

\* click on #confirm-clear
ConfirmClearClick ==
    /\ gen.on
    /\ gen.currentScore = 0
    /\ gen' = clearAllScores(gen)
    /\ UNCHANGED genRest

\* the page is loaded again
LeaderboardReload ==
    /\ gen.on
    /\ gen' = loadLeaderboard([gen EXCEPT !.leaderboard = <<>>, !.currentScore = 0])
    /\ UNCHANGED genRest

NextLeaderboard ==
    \/ ShowScoreDetailsClick
    \/ CloseDetailsClick
    \/ DeleteScoreClick
    \/ ConfirmClearClick
    \/ LeaderboardReload

SpecLeaderboard == InitLeaderboard /\ [][NextLeaderboard]_vars

\* C40: after a leaderboard entry is deleted with deleteCurrentScore, no
\* entry with that id appears in the leaderboard again, including after the
\* leaderboard is reloaded from storage.
C40_DeletedStaysDeleted ==
    \A id \in gen.deleted : id \notin Range(gen.leaderboard)
====
